---- MODULE Spec2Model ----
(***************************************************************************)
(* A model of the ATS keyword-matching and resume-scoring engine:          *)
(* EnhancedATSAnalyzerService (config/ai/services/enhanced_ats_analyzer),  *)
(* its fallback ATSAnalyzerService, JobMatcherService and the part of the  *)
(* analyze-resume view that chains the two analyzers.                      *)
(*                                                                         *)
(* Python strings are TLA+ strings; the regular expressions and the str    *)
(* methods the code uses are operators over them, computed character by    *)
(* character.                                                              *)
(***************************************************************************)
EXTENDS Integers, Sequences, FiniteSets, TLC

(***************************************************************************)
(* Characters and the str methods used by the code.                        *)
(***************************************************************************)
LowerLetters == "abcdefghijklmnopqrstuvwxyz"
UpperLetters == "ABCDEFGHIJKLMNOPQRSTUVWXYZ"
Digits == "0123456789"

Ch(s, i) == SubSeq(s, i, i)

CharsOf(s) == {Ch(s, i) : i \in 1..Len(s)}

LowerSet == CharsOf(LowerLetters)
UpperSet == CharsOf(UpperLetters)
DigitSet == CharsOf(Digits)

\* str.lower() on one character
ToLower == [c \in UpperSet |->
              Ch(LowerLetters, CHOOSE i \in 1..26 : Ch(UpperLetters, i) = c)]

\* str.upper() on one character
ToUpper == [c \in LowerSet |->
              Ch(UpperLetters, CHOOSE i \in 1..26 : Ch(LowerLetters, i) = c)]

LowerChar(c) == IF c \in UpperSet THEN ToLower[c] ELSE c

IsAlpha(c) == c \in LowerSet \/ c \in UpperSet
IsDigit(c) == c \in DigitSet
\* the regex class \w
IsWordChar(c) == IsAlpha(c) \/ IsDigit(c) \/ c = "_"
\* the regex class \s, and the characters str.strip() and str.split() drop
IsSpace(c) == c \in {" ", "\n", "\t"}

RECURSIVE LowerStr(_)
\* str.lower(), character by character (halving keeps the evaluation shallow)
LowerStr(s) ==
    IF s = "" THEN ""
    ELSE IF Len(s) = 1 THEN LowerChar(s)
    ELSE LowerStr(SubSeq(s, 1, Len(s) \div 2))
         \o LowerStr(SubSeq(s, Len(s) \div 2 + 1, Len(s)))

RECURSIVE LStrip(_)
LStrip(s) ==
    IF s # "" /\ IsSpace(Ch(s, 1)) THEN LStrip(SubSeq(s, 2, Len(s))) ELSE s

RECURSIVE RStrip(_)
RStrip(s) ==
    IF s # "" /\ IsSpace(Ch(s, Len(s))) THEN RStrip(SubSeq(s, 1, Len(s) - 1)) ELSE s

\* str.strip()
Strip(s) == LStrip(RStrip(s))

\* the Python test `pat in s` on strings
Contains(s, pat) ==
    \E i \in 1..(Len(s) - Len(pat) + 1) : SubSeq(s, i, i + Len(pat) - 1) = pat

RECURSIVE Join(_, _)
\* sep.join(parts)
Join(parts, sep) ==
    IF parts = <<>> THEN ""
    ELSE IF Len(parts) = 1 THEN parts[1]
    ELSE parts[1] \o sep \o Join(Tail(parts), sep)

WordSet == LowerSet \cup UpperSet \cup DigitSet \cup {"_"}
SpaceSet == {" ", "\n", "\t"}

RECURSIVE SpanIn(_, _, _)
\* the first index >= i of s whose character is not in S (Len(s)+1 if none)
SpanIn(s, i, S) ==
    IF i > Len(s) \/ Ch(s, i) \notin S THEN i ELSE SpanIn(s, i + 1, S)

RECURSIVE SpanNotIn(_, _, _)
\* the first index >= i of s whose character is in S (Len(s)+1 if none)
SpanNotIn(s, i, S) ==
    IF i > Len(s) \/ Ch(s, i) \in S THEN i ELSE SpanNotIn(s, i + 1, S)

\* the first index >= i of s whose character is in S (Len(s)+1 if none),
\* computed without recursion: for the marks that are rare in a text
FirstIn(s, i, S) ==
    LET C == {j \in i..Len(s) : Ch(s, j) \in S}
    IN  IF C = {} THEN Len(s) + 1 ELSE CHOOSE j \in C : \A k \in C : j <= k

RECURSIVE SplitFrom(_, _)
SplitFrom(s, i) ==
    LET b == SpanIn(s, i, SpaceSet)
    IN  IF b > Len(s) THEN <<>>
        ELSE LET j == SpanNotIn(s, b, SpaceSet)
             IN  <<SubSeq(s, b, j - 1)>> \o SplitFrom(s, j)

\* str.split() with no argument: the whitespace-separated pieces
Split(s) == SplitFrom(s, 1)

RECURSIVE SplitCommaFrom(_, _)
SplitCommaFrom(s, i) ==
    LET j == FirstIn(s, i, {","})
    IN  IF j > Len(s) THEN <<SubSeq(s, i, Len(s))>>
        ELSE <<SubSeq(s, i, j - 1)>> \o SplitCommaFrom(s, j + 1)

\* str.split(','): the pieces between commas, empty pieces kept
SplitComma(s) == SplitCommaFrom(s, 1)

Range(f) == {f[i] : i \in DOMAIN f}

Min(a, b) == IF a <= b THEN a ELSE b
Max(a, b) == IF a >= b THEN a ELSE b

(***************************************************************************)
(* The regular expressions of the analyzers.                               *)
(***************************************************************************)
RECURSIVE WordRunsFrom(_, _)
WordRunsFrom(s, i) ==
    LET b == SpanNotIn(s, i, WordSet)
    IN  IF b > Len(s) THEN <<>>
        ELSE LET j == SpanIn(s, b, WordSet)
             IN  <<SubSeq(s, b, j - 1)>> \o WordRunsFrom(s, j)

\* The maximal runs of \w characters of s, in order.  A regex that starts and
\* ends with \b around \w-only atoms can only match a whole run: \b holds at
\* an index exactly when one of its two neighbours is a \w character.
WordRuns(s) == WordRunsFrom(s, 1)

AllIn(s, S) == \A i \in 1..Len(s) : Ch(s, i) \in S

\* re.findall(r'\b[a-zA-Z]{n,}\b', s): the \w-runs made of at least n letters
FindAllAlpha(s, n) ==
    SelectSeq(WordRuns(s), LAMBDA w : Len(w) >= n /\ AllIn(w, LowerSet \cup UpperSet))

\* U+2022 (the bullet character) is written "~" here: strings of the module are
\* ASCII, and the code treats "~" nowhere else
BulletChar == "~"

BulletMarks == {BulletChar, "-", "*"}

\* For a bullet mark at index p: the index where the group (.+) starts, 0 if
\* the regex does not match at p.  \s* is greedy and gives characters back
\* until (.+) finds a character that is not a newline.
BulletGroupStart(s, p) ==
    LET r == SpanIn(s, p + 1, SpaceSet)
        C == {e \in (p + 1)..r : e <= Len(s) /\ Ch(s, e) # "\n"}
    IN  IF C = {} THEN 0 ELSE CHOOSE e \in C : \A f \in C : f <= e

RECURSIVE FindBulletsFrom(_, _)
FindBulletsFrom(s, i) ==
    LET p == FirstIn(s, i, BulletMarks)
    IN  IF p > Len(s) THEN <<>>
        ELSE LET e == BulletGroupStart(s, p)
             IN  IF e = 0 THEN FindBulletsFrom(s, p + 1)
                 ELSE LET eol == FirstIn(s, e, {"\n"})
                      IN  <<SubSeq(s, e, eol - 1)>> \o FindBulletsFrom(s, eol)

\* re.findall(r'[<U+2022>\-\*]\s*(.+)', s): for every mark, the rest of its line
FindBullets(s) == FindBulletsFrom(s, 1)

\* re.search(r'\b\d+[%$KMB]?\b', s): a \w-run of digits, or of digits and one
\* of K, M, B (% and $ are not \w characters, so \b never holds after them
\* unless a \w character follows, and then the digits alone match already)
HasMetric(s) ==
    \E k \in DOMAIN WordRuns(s) :
        LET w == WordRuns(s)[k]
        IN  \/ AllIn(w, DigitSet)
            \/ /\ Len(w) >= 2
               /\ AllIn(SubSeq(w, 1, Len(w) - 1), DigitSet)
               /\ Ch(w, Len(w)) \in {"K", "M", "B"}

(***************************************************************************)
(* Python sets of strings.  A set is iterated in the order of its hash     *)
(* table, which depends on the strings' hashes; str hashes are salted with *)
(* a seed drawn when the interpreter starts (PYTHONHASHSEED=random, the    *)
(* default).  The order is total for a given seed and differs from seed to *)
(* seed.                                                                   *)
(***************************************************************************)
CodeChars == LowerLetters \o Digits \o " .,-+/#_"

Code(c) ==
    IF c \in CharsOf(CodeChars)
    THEN CHOOSE i \in 1..Len(CodeChars) : Ch(CodeChars, i) = c
    ELSE 0

RECURSIVE StrHashFrom(_, _, _)
StrHashFrom(w, seed, h) ==
    IF w = "" THEN h
    ELSE StrHashFrom(SubSeq(w, 2, Len(w)), seed,
                     (h * (31 + 2 * seed) + Code(Ch(w, 1)) + seed) % 1009)

\* hash(w) under the interpreter's seed, reduced to a table index
StrHash(w, seed) == StrHashFrom(w, seed, 7 * seed)

RECURSIVE StrLess(_, _)
StrLess(a, b) ==
    IF b = "" THEN FALSE
    ELSE IF a = "" THEN TRUE
    ELSE IF Ch(a, 1) # Ch(b, 1) THEN Code(Ch(a, 1)) < Code(Ch(b, 1))
    ELSE StrLess(SubSeq(a, 2, Len(a)), SubSeq(b, 2, Len(b)))

\* a and b are <<hash, string>> pairs: the slot of a comes before the slot of b
SlotBefore(a, b) ==
    \/ a[1] < b[1]
    \/ a[1] = b[1] /\ StrLess(a[2], b[2])

RECURSIVE SlotOrder(_)
SlotOrder(slots) ==
    IF slots = {} THEN <<>>
    ELSE LET first == CHOOSE a \in slots : \A b \in slots \ {a} : SlotBefore(a, b)
         IN  <<first[2]>> \o SlotOrder(slots \ {first})

\* list(S): the elements of the set S in the interpreter's iteration order
SetIter(S, seed) == SlotOrder({<<StrHash(w, seed), w>> : w \in S})

(***************************************************************************)
(* EnhancedATSAnalyzerService: keyword extraction.                         *)
(***************************************************************************)
stop_words ==
    {"the", "and", "for", "are", "but", "not", "you", "all", "can", "her",
     "was", "one", "our", "out", "day", "get", "has", "him", "his", "how",
     "its", "may", "new", "now", "old", "see", "two", "way", "who", "boy",
     "did", "let", "put", "say", "she", "too", "use", "with", "this",
     "that", "have", "from", "they", "know", "want", "been", "good", "much",
     "some", "time", "very", "when", "come", "here", "just", "like", "long",
     "make", "many", "over", "such", "take", "than", "them", "well", "were",
     "what", "work", "year", "years", "will", "would", "could", "should",
     "ability", "abilities", "experience", "skills", "skill"}

MinKeywordLen == 3

\* the keywords of the text that occur in it exactly once
KeywordsOccurringOnce(text) ==
    LET words == FindAllAlpha(LowerStr(text), MinKeywordLen)
    IN  {w \in Range(words) :
            /\ w \notin stop_words
            /\ Cardinality({k \in DOMAIN words : words[k] = w}) = 1}

extract_keywords_regex(text) ==
    {w \in Range(FindAllAlpha(LowerStr(text), MinKeywordLen)) :
        w \notin stop_words /\ Len(w) >= MinKeywordLen}

(***************************************************************************)
(* Resume data: the dict the analyzers read with .get().  A key that is    *)
(* absent and a key with an empty value read the same (falsy), so a resume *)
(* is a record with every field, empty where the dict has none; has_keys   *)
(* tells the empty dict (and None) from a dict that has keys.              *)
(***************************************************************************)
NoData ==
    [skills |-> <<>>, has_keys |-> FALSE, full_name |-> "", title |-> "",
     summary |-> "", optimized_summary |-> "", email |-> "",
     experiences |-> <<>>, projects |-> <<>>, educations |-> <<>>,
     certifications |-> <<>>]

\* the truth value of a dict: it has a key
Truthy(resume_data) == resume_data.has_keys

\* an entry of a section list that is no dict (None, a string, a number):
\* entry.get raises AttributeError
NotADict == [malformed |-> TRUE]

IsDict(entry) == "malformed" \notin DOMAIN entry

\* some entry of a section that the analyzer iterates with entry.get(...)
HasMalformedEntry(d) ==
    \/ \E k \in DOMAIN d.experiences : ~IsDict(d.experiences[k])
    \/ \E k \in DOMAIN d.projects : ~IsDict(d.projects[k])
    \/ \E k \in DOMAIN d.educations : ~IsDict(d.educations[k])
    \/ \E k \in DOMAIN d.skills : ~IsDict(d.skills[k])
    \/ \E k \in DOMAIN d.certifications : ~IsDict(d.certifications[k])

NonEmpty(parts) == SelectSeq(parts, LAMBDA t : t # "")

RECURSIVE Flatten(_)
Flatten(seqs) ==
    IF seqs = <<>> THEN <<>> ELSE Head(seqs) \o Flatten(Tail(seqs))

RECURSIVE UnionAll(_)
UnionAll(sets) ==
    IF sets = <<>> THEN {} ELSE Head(sets) \cup UnionAll(Tail(sets))

extract_text_from_data(d) ==
    LET personal == NonEmpty(<<d.full_name, d.title, d.summary, d.optimized_summary>>)
        exps == Flatten([k \in DOMAIN d.experiences |->
                    LET e == d.experiences[k]
                    IN  NonEmpty(<<e.position, e.company, e.description>>)])
        projs == Flatten([k \in DOMAIN d.projects |->
                    LET q == d.projects[k]
                    IN  NonEmpty(<<q.title, q.description, q.technologies>>)])
        edus == Flatten([k \in DOMAIN d.educations |->
                    LET e == d.educations[k]
                    IN  NonEmpty(<<e.degree, e.institution>>)])
        skls == Flatten([k \in DOMAIN d.skills |-> NonEmpty(<<d.skills[k].name>>)])
        certs == Flatten([k \in DOMAIN d.certifications |->
                    NonEmpty(<<d.certifications[k].name>>)])
    IN  Join(personal \o exps \o projs \o edus \o skls \o certs, " ")

\* the keywords of one optional text field: nothing when the field is empty
FieldKeywords(t) == IF t = "" THEN {} ELSE extract_keywords_regex(t)

\* a whole field taken as one keyword (skill and certification names)
WholeKeyword(t) == IF t = "" THEN {} ELSE {Strip(LowerStr(t))}

\* project['technologies'].split(','), each piece stripped and lowercased
TechKeywords(t) ==
    IF t = "" THEN {} ELSE {LowerStr(Strip(x)) : x \in Range(SplitComma(t))}

extract_resume_keywords_comprehensive(resume_text, d) ==
    extract_keywords_regex(resume_text) \cup
    ( IF ~Truthy(d) THEN {}
      ELSE FieldKeywords(d.summary) \cup FieldKeywords(d.optimized_summary)
           \cup UnionAll([k \in DOMAIN d.skills |-> WholeKeyword(d.skills[k].name)])
           \cup UnionAll([k \in DOMAIN d.projects |->
                    LET q == d.projects[k]
                    IN  TechKeywords(q.technologies) \cup FieldKeywords(q.title)
                        \cup FieldKeywords(q.description)])
           \cup UnionAll([k \in DOMAIN d.experiences |->
                    LET e == d.experiences[k]
                    IN  FieldKeywords(e.description) \cup FieldKeywords(e.position)
                        \cup FieldKeywords(e.company)])
           \cup UnionAll([k \in DOMAIN d.certifications |->
                    LET c == d.certifications[k]
                    IN  WholeKeyword(c.name) \cup FieldKeywords(c.issuer)])
           \cup UnionAll([k \in DOMAIN d.educations |->
                    LET e == d.educations[k]
                    IN  FieldKeywords(e.degree) \cup FieldKeywords(e.field_of_study)
                        \cup FieldKeywords(e.institution)]) )

(***************************************************************************)
(* Fuzzy matching.  The module imports rapidfuzz when it is installed and  *)
(* difflib otherwise.                                                      *)
(***************************************************************************)
RECURSIVE LcsRow(_, _, _, _)
\* One row of the longest-common-subsequence table: prev is the row of the
\* previous character of b (index k holds the entry for a[1..k-1]), c the
\* character of b for this row, acc the entries computed so far.
LcsRow(prev, a, c, acc) ==
    IF Len(acc) = Len(a) + 1 THEN acc
    ELSE LET i == Len(acc)
             v == IF Ch(a, i) = c THEN prev[i] + 1
                  ELSE Max(prev[i + 1], acc[i])
         IN  LcsRow(prev, a, c, Append(acc, v))

RECURSIVE LcsRows(_, _, _, _)
LcsRows(prev, a, b, j) ==
    IF j > Len(b) THEN prev
    ELSE LcsRows(LcsRow(prev, a, Ch(b, j), <<0>>), a, b, j + 1)

\* the length of the longest common subsequence of a and b
Lcs(a, b) == LcsRows([k \in 1..(Len(a) + 1) |-> 0], a, b, 1)[Len(a) + 1]

\* difflib's find_longest_match on a[alo..ahi], b[blo..bhi]: the longest
\* common block, the earliest in a and then the earliest in b; <<0, 0, 0>>
\* when there is none
LongestMatch(a, b, alo, ahi, blo, bhi) ==
    LET Blocks == {t \in (alo..ahi) \X (blo..bhi) \X (1..(ahi - alo + 1)) :
                      /\ t[1] + t[3] - 1 <= ahi
                      /\ t[2] + t[3] - 1 <= bhi
                      /\ SubSeq(a, t[1], t[1] + t[3] - 1) = SubSeq(b, t[2], t[2] + t[3] - 1)}
        Better(t, u) == \/ t[3] > u[3]
                        \/ t[3] = u[3] /\ t[1] < u[1]
                        \/ t[3] = u[3] /\ t[1] = u[1] /\ t[2] < u[2]
    IN  IF Blocks = {} THEN <<0, 0, 0>>
        ELSE CHOOSE t \in Blocks : \A u \in Blocks \ {t} : Better(t, u)

RECURSIVE MatchingSize(_, _, _, _, _, _)
\* the total size of difflib's get_matching_blocks()
MatchingSize(a, b, alo, ahi, blo, bhi) ==
    IF alo > ahi \/ blo > bhi THEN 0
    ELSE LET t == LongestMatch(a, b, alo, ahi, blo, bhi)
         IN  IF t[3] = 0 THEN 0
             ELSE t[3] + MatchingSize(a, b, alo, t[1] - 1, blo, t[2] - 1)
                       + MatchingSize(a, b, t[1] + t[3], ahi, t[2] + t[3], bhi)

FuzzyThresholdPct == 85

\* ratio >= threshold, for rapidfuzz's fuzz.ratio (100 * 2 * LCS / (|a| + |b|))
\* and for SequenceMatcher.ratio() (2 * M / (|a| + |b|)).  Neither LCS nor M
\* exceeds the shorter length: the first conjunct only spares the computation.
RatioAtLeastThreshold(a, b, lib) ==
    /\ 200 * Min(Len(a), Len(b)) >= FuzzyThresholdPct * (Len(a) + Len(b))
    /\ IF lib = "rapidfuzz"
       THEN 200 * Lcs(a, b) >= FuzzyThresholdPct * (Len(a) + Len(b))
       ELSE 200 * MatchingSize(a, b, 1, Len(a), 1, Len(b))
                >= FuzzyThresholdPct * (Len(a) + Len(b))

fuzzy_match(keyword1, keyword2, lib) ==
    \/ LowerStr(keyword1) = LowerStr(keyword2)
    \/ RatioAtLeastThreshold(LowerStr(keyword1), LowerStr(keyword2), lib)

(***************************************************************************)
(* EnhancedATSAnalyzerService: scores.                                     *)
(***************************************************************************)
\* 100 * m / n rounded to the nearest integer
PctRounded(m, n) == (200 * m + n) \div (2 * n)

\* int((m / n) * 100): the float quotient times 100, truncated.  The product
\* falls just short of the exact value for 29/50, 29/100, 57/100 and 58/100
\* (the only such pairs with n < 120), where int() gives one less.
PctInt(m, n) ==
    IF <<m, n>> \in {<<29, 50>>, <<29, 100>>, <<57, 100>>, <<58, 100>>}
    THEN (100 * m) \div n - 1
    ELSE (100 * m) \div n

Clamp(v) == Max(0, Min(100, v))

BaselineAtsScore == 75

HasMatch(job_kw, resume_keywords, lib) ==
    \/ job_kw \in resume_keywords
    \/ \E resume_kw \in resume_keywords : fuzzy_match(job_kw, resume_kw, lib)

\* <<score, matched>>
calculate_ats_score_fuzzy(job_keywords, resume_keywords, lib) ==
    IF job_keywords = {} THEN <<BaselineAtsScore, {}>>
    ELSE LET matched == {k \in job_keywords : HasMatch(k, resume_keywords, lib)}
         IN  <<Clamp(PctInt(Cardinality(matched), Cardinality(job_keywords))), matched>>

\* the unmatched job keywords found by exact comparison alone
FindMissingExact(job_keywords, resume_keywords, lib, seed) ==
    SetIter(job_keywords \ resume_keywords, seed)

\* the list of unmatched job keywords, in the iteration order of the set
find_missing_keywords_fuzzy(job_keywords, resume_keywords, lib, seed) ==
    SelectSeq(SetIter(job_keywords, seed),
              LAMBDA k : ~HasMatch(k, resume_keywords, lib))

\* a sort key without the length: the stop-word flag alone
KeyWithoutLength(w) ==
    IF LowerStr(w) \notin {"the", "and", "for", "with"} THEN 1 ELSE 0

\* the sort key (len(x), x.lower() not in ['the', 'and', 'for', 'with']) as
\* one number that orders as the pair does
MissingSortKey(w) ==
    2 * Len(w) + (IF LowerStr(w) \notin {"the", "and", "for", "with"} THEN 1 ELSE 0)

RemoveAt(seq, k) == SubSeq(seq, 1, k - 1) \o SubSeq(seq, k + 1, Len(seq))

RECURSIVE SortedMissing(_)
\* sorted(missing, key=..., reverse=True): descending and stable, equal keys
\* keep the order they had in the list
SortedMissing(seq) ==
    IF seq = <<>> THEN <<>>
    ELSE LET k == CHOOSE a \in DOMAIN seq :
                    /\ \A b \in DOMAIN seq : MissingSortKey(seq[b]) <= MissingSortKey(seq[a])
                    /\ \A b \in 1..(a - 1) : MissingSortKey(seq[b]) < MissingSortKey(seq[a])
         IN  <<seq[k]>> \o SortedMissing(RemoveAt(seq, k))

MissingCap == 15

\* the slice without its bound
TakeAll(seq, n) == seq

Take(seq, n) == SubSeq(seq, 1, Min(n, Len(seq)))

\* the mapping without its min and max
ReadabilityUnclamped(f) ==
    IF f >= 60 THEN 60 + (f - 60) * 2
    ELSE IF f >= 40 THEN 40 + (f - 40)
    ELSE f \div 2

\* textstat's flesch_reading_ease(text) mapped to 0..100
ReadabilityFromFlesch(f) ==
    IF f >= 60 THEN Min(100, 60 + (f - 60) * 2)
    ELSE IF f >= 40 THEN 40 + (f - 40)
    ELSE Max(0, f \div 2)

SentenceEnds == {".", "!", "?"}

RECURSIVE SentencesFrom(_, _)
SentencesFrom(s, i) ==
    LET j == FirstIn(s, i, SentenceEnds)
    IN  IF j > Len(s) THEN <<SubSeq(s, i, Len(s))>>
        ELSE <<SubSeq(s, i, j - 1)>> \o SentencesFrom(s, SpanIn(s, j, SentenceEnds))

\* re.split(r'[.!?]+', text)
SplitSentences(s) == SentencesFrom(s, 1)

RECURSIVE SumSeq(_)
SumSeq(q) == IF q = <<>> THEN 0 ELSE Head(q) + SumSeq(Tail(q))

\* the heuristic used when textstat cannot be imported; the average sentence
\* length words / n is compared without dividing
ReadabilityHeuristic(text) ==
    LET sentences == SplitSentences(text)
        n == Len(sentences)
        words == SumSeq([k \in DOMAIN sentences |-> Len(Split(sentences[k]))])
    IN  IF 15 * n <= words /\ words <= 20 * n THEN 85
        ELSE IF 10 * n <= words /\ words <= 25 * n THEN 75
        ELSE IF 5 * n <= words /\ words <= 30 * n THEN 65
        ELSE 50

\* flesch is textstat's value for the text, or NoTextstat when the import fails
NoTextstat == "ImportError"

calculate_readability_score(text, textstat, flesch) ==
    IF textstat = NoTextstat THEN ReadabilityHeuristic(text)
    ELSE ReadabilityFromFlesch(flesch)

\* the bullets of the text and of the experience and project descriptions
AllBullets(resume_text, d) ==
    FindBullets(resume_text) \o
    ( IF ~Truthy(d) THEN <<>>
      ELSE Flatten([k \in DOMAIN d.experiences |->
                      IF d.experiences[k].description = "" THEN <<>>
                      ELSE FindBullets(d.experiences[k].description)])
           \o Flatten([k \in DOMAIN d.projects |->
                      IF d.projects[k].description = "" THEN <<>>
                      ELSE FindBullets(d.projects[k].description)]) )

NoBulletsQuantifiable == 30

calculate_quantifiable_score(resume_text, d) ==
    LET bullets == AllBullets(resume_text, d)
    IN  IF bullets = <<>> THEN NoBulletsQuantifiable
        ELSE Clamp(PctInt(Len(SelectSeq(bullets, HasMetric)), Len(bullets)))

action_verbs ==
    {"developed", "implemented", "created", "managed", "led", "achieved",
     "increased", "improved", "designed", "built", "optimized", "reduced",
     "delivered", "executed", "launched", "established", "generated",
     "architected", "scaled", "automated", "streamlined"}

NoBulletsStrength == 40

StartsWithVerb(bullet) ==
    \E w \in Range(Take(Split(LowerStr(bullet)), 3)) : w \in action_verbs

calculate_bullet_strength(resume_text, d) ==
    LET bullets == AllBullets(resume_text, d)
    IN  IF bullets = <<>> THEN NoBulletsStrength
        ELSE Clamp(PctInt(Len(SelectSeq(bullets, StartsWithVerb)), Len(bullets)))

sections == {"experience", "education", "skills", "summary", "projects", "certifications"}

calculate_formatting_score(resume_text, d) ==
    LET low == LowerStr(resume_text)
        found == Cardinality({sec \in sections : Contains(low, sec)})
        structure == IF ~Truthy(d) THEN 0
                     ELSE (IF d.experiences # <<>> THEN 10 ELSE 0)
                          + (IF d.skills # <<>> THEN 10 ELSE 0)
                          + (IF d.educations # <<>> THEN 10 ELSE 0)
    IN  Min(100, 50 + found * 8 + structure)

(***************************************************************************)
(* EnhancedATSAnalyzerService: suggestions.                                *)
(***************************************************************************)
KeywordSuggestion(missing_keywords, d) ==
    [text |-> "Add keywords: " \o Join(Take(missing_keywords, 5), ", ") \o ". "
              \o (IF Truthy(d) /\ d.experiences # <<>>
                  THEN "Add to relevant Experience descriptions or Skills section"
                  ELSE "Add to Skills section")
              \o ".",
     type |-> "keyword",
     priority |-> "high"]

AchievementSuggestion ==
    [text |-> "Add quantifiable metrics to bullet points (e.g., \"Increased revenue by 25%\", \"Managed team of 10\")",
     type |-> "achievement",
     priority |-> "high"]

BulletSuggestion ==
    [text |-> "Start bullet points with strong action verbs (Developed, Implemented, Led, Achieved)",
     type |-> "formatting",
     priority |-> "medium"]

ProjectsSuggestion ==
    [text |-> "Consider adding a Projects section to showcase technical work",
     type |-> "content",
     priority |-> "medium"]

CertificationsSuggestion ==
    [text |-> "Consider adding relevant certifications (e.g., AWS, Azure) if applicable",
     type |-> "content",
     priority |-> "low"]

GeneralSuggestion ==
    [text |-> "Low ATS compatibility. Review job description keywords and ensure they appear naturally in your resume",
     type |-> "general",
     priority |-> "high"]

PaddingSuggestion ==
    [text |-> "Ensure consistent formatting and clear section headers",
     type |-> "formatting",
     priority |-> "low"]

cert_keywords == {"aws", "azure", "gcp", "certified", "certification"}

MinSuggestions == 3
MaxSuggestions == 5

\* one step of the rule list: the suggestion appended when the rule's condition holds
When(cond, suggestion) == IF cond THEN <<suggestion>> ELSE <<>>

\* the padding put in front of the list instead of behind it
PadInFront(suggestions) ==
    IF Len(suggestions) < MinSuggestions
    THEN <<PaddingSuggestion>> \o suggestions
    ELSE suggestions

\* the single append made when fewer than MinSuggestions suggestions were produced
PadSuggestions(suggestions) ==
    IF Len(suggestions) < MinSuggestions
    THEN Append(suggestions, PaddingSuggestion)
    ELSE suggestions

generate_suggestions(resume_text, d, missing_keywords, ats_score, quantifiable_score, bullet_strength) ==
    LET joined == LowerStr(Join(missing_keywords, " "))
        rules ==
            When(missing_keywords # <<>>, KeywordSuggestion(missing_keywords, d))
            \o When(quantifiable_score < 60, AchievementSuggestion)
            \o When(bullet_strength < 70, BulletSuggestion)
            \o When(/\ Truthy(d)
                    /\ d.projects = <<>>
                    /\ Contains(LowerStr(resume_text), "project"),
                    ProjectsSuggestion)
            \o When(/\ Truthy(d)
                    /\ d.certifications = <<>>
                    /\ missing_keywords # <<>>
                    /\ \E kw \in cert_keywords : Contains(joined, kw),
                    CertificationsSuggestion)
            \o When(ats_score < 60, GeneralSuggestion)
    IN  Take(PadSuggestions(rules), MaxSuggestions)

(***************************************************************************)
(* The lazily loaded LangChain module globals and the analyzer's lazily    *)
(* created LLM client.  proc holds _langchain_checked, _langchain_available*)
(* (None until checked) and the instance's _llm_initialized and _llm; env  *)
(* is what the deployment provides: api_key (settings.OPENAI_API_KEY is    *)
(* set), importable (langchain_openai can be imported), reply (what the    *)
(* LLM call does), lib (the fuzzy-matching library imported), seed (the    *)
(* interpreter's hash seed).                                               *)
(***************************************************************************)
FreshInstance(proc) == [proc EXCEPT !.llm_initialized = FALSE, !.llm = "None"]

FreshProcess ==
    [llm_initialized |-> FALSE, llm |-> "None",
     langchain_checked |-> FALSE, langchain_available |-> "None"]

ensure_langchain(proc, env) ==
    IF proc.langchain_checked THEN proc
    ELSE [proc EXCEPT !.langchain_checked = TRUE,
                      !.langchain_available =
                          IF env.importable THEN "True" ELSE "False"]

\* the property llm: the process state after reading it (proc.llm is its value)
llm(proc, env) ==
    IF proc.llm_initialized THEN proc
    ELSE LET p1 == [proc EXCEPT !.llm_initialized = TRUE]
         IN  IF ~env.api_key THEN p1
             ELSE LET p2 == ensure_langchain(p1, env)
                  IN  IF p2.langchain_available = "True"
                      THEN [p2 EXCEPT !.llm = "client"]
                      ELSE p2

\* the keywords kept from a list of strings the LLM returned
KeptLLMKeywords(items) ==
    {Strip(LowerStr(items[k])) : k \in {j \in DOMAIN items : Len(items[j]) >= MinKeywordLen}}

RECURSIVE FindQuotedFrom(_, _)
FindQuotedFrom(s, i) ==
    LET a == FirstIn(s, i, {"\""})
        b == FirstIn(s, a + 1, {"\""})
    IN  IF a > Len(s) \/ b > Len(s) THEN <<>>
        ELSE IF b = a + 1 THEN FindQuotedFrom(s, b)
        ELSE <<SubSeq(s, a + 1, b - 1)>> \o FindQuotedFrom(s, b + 1)

\* re.findall(r'"([^"]+)"', content): the non-empty pieces between double
\* quotes, left to right
FindQuoted(content) == FindQuotedFrom(content, 1)

\* the fallback left out: whatever the reply is, its strings are the keywords
KeywordsFromReplyOnly(job_desc, proc, env) == KeptLLMKeywords(env.reply.items)

\* reply.kind: "raise" (the call raises), "list" (a JSON array whose strings
\* are reply.items), "notlist" (JSON that is no array), "invalid" (not JSON;
\* reply.content is the text)
extract_job_keywords_langchain(job_desc, proc, env) ==
    IF proc.llm = "None" \/ proc.langchain_available # "True"
    THEN extract_keywords_regex(job_desc)
    ELSE IF env.reply.kind = "list"
    THEN KeptLLMKeywords(env.reply.items)
    ELSE IF env.reply.kind = "invalid"
    THEN KeptLLMKeywords(FindQuoted(env.reply.content))
    ELSE extract_keywords_regex(job_desc)

(***************************************************************************)
(* EnhancedATSAnalyzerService.analyze.  The outcome is [raised |-> TRUE]   *)
(* with the exception's name, or [raised |-> FALSE] with the result dict   *)
(* and the sets the call computed on the way.  Nothing in analyze or in    *)
(* the helpers it calls catches an exception of a section loop: the first  *)
(* entry that is no dict ends the call in _extract_text_from_data.         *)
(***************************************************************************)
\* None, for keyword_score when there is no job description
PyNone == -1

Raised(name) == [raised |-> TRUE, error |-> name]

\* the dict without its optional keys
PartialResult(ats_score, missing_keywords, suggestions, readability_score, bullet_strength, quantifiable_score, keyword_score, formatting_score, detailed_analysis) ==
    [missing_keywords |-> missing_keywords,
     suggestions |-> suggestions,
     ats_score |-> Clamp(ats_score),
     bullet_strength |-> bullet_strength,
     readability_score |-> readability_score,
     quantifiable_achievements |-> quantifiable_score]

AnalysisResult(ats_score, missing_keywords, suggestions, readability_score, bullet_strength, quantifiable_score, keyword_score, formatting_score, detailed_analysis) ==
    [missing_keywords |-> missing_keywords,
     suggestions |-> suggestions,
     ats_score |-> Clamp(ats_score),
     bullet_strength |-> bullet_strength,
     readability_score |-> readability_score,
     keyword_score |-> keyword_score,
     formatting_score |-> formatting_score,
     detailed_analysis |-> detailed_analysis,
     quantifiable_achievements |-> quantifiable_score]

\* the resume text analyze works on: always extracted afresh from the data
\* when there is data
EffectiveText(resume_data, resume_text) ==
    IF Truthy(resume_data) THEN extract_text_from_data(resume_data) ELSE resume_text

\* the process state after the call: the LLM is looked up only when there is
\* a job description and the text is not empty
ProcAfterAnalyze(resume_data, resume_text, job_desc, proc, env) ==
    IF Truthy(resume_data) /\ HasMalformedEntry(resume_data) THEN proc
    ELSE IF EffectiveText(resume_data, resume_text) # "" /\ job_desc # ""
    THEN llm(proc, env)
    ELSE proc

analyze(resume_data, resume_text, job_desc, flesch, proc, env) ==
    LET text == EffectiveText(resume_data, resume_text)
        job_keywords ==
            IF job_desc = "" THEN {}
            ELSE extract_job_keywords_langchain(job_desc, llm(proc, env), env)
        resume_keywords == extract_resume_keywords_comprehensive(text, resume_data)
        scored == calculate_ats_score_fuzzy(job_keywords, resume_keywords, env.lib)
        ats_score == scored[1]
        matched_keywords == scored[2]
        missing_keywords ==
            Take(SortedMissing(find_missing_keywords_fuzzy(
                     job_keywords, resume_keywords, env.lib, env.seed)), MissingCap)
        readability_score == calculate_readability_score(text, env.textstat, flesch)
        quantifiable_score == calculate_quantifiable_score(text, resume_data)
        bullet_strength == calculate_bullet_strength(text, resume_data)
        keyword_score ==
            IF job_desc = "" THEN PyNone
            ELSE PctInt(Cardinality(matched_keywords),
                        IF job_keywords = {} THEN 1 ELSE Cardinality(job_keywords))
        suggestions ==
            generate_suggestions(text, resume_data, missing_keywords, ats_score,
                                 quantifiable_score, bullet_strength)
        detailed_analysis ==
            [total_words |-> Len(Split(text)),
             total_job_keywords |-> Cardinality(job_keywords),
             matched_keywords_count |-> Cardinality(matched_keywords),
             has_contact_info |-> Truthy(resume_data) /\ resume_data.email # "",
             has_experience |-> Truthy(resume_data) /\ resume_data.experiences # <<>>,
             has_projects |-> Truthy(resume_data) /\ resume_data.projects # <<>>,
             has_certifications |-> Truthy(resume_data) /\ resume_data.certifications # <<>>]
    IN  IF Truthy(resume_data) /\ HasMalformedEntry(resume_data)
        THEN Raised("AttributeError")
        ELSE IF text = "" THEN Raised("ValueError")
        ELSE [resume_keywords |-> resume_keywords,
              job_keywords |-> job_keywords,
              raised |-> FALSE,
              matched_keywords |-> matched_keywords,
              result |-> AnalysisResult(ats_score, missing_keywords, suggestions,
                             readability_score, bullet_strength, quantifiable_score,
                             keyword_score, calculate_formatting_score(text, resume_data),
                             detailed_analysis)]

(***************************************************************************)
(* ATSAnalyzerService, the basic analyzer the view falls back to.          *)
(***************************************************************************)
basic_extract_text_from_data(d) ==
    LET personal == NonEmpty(<<d.full_name, d.title, d.summary, d.optimized_summary>>)
        exps == Flatten([k \in DOMAIN d.experiences |->
                    LET e == d.experiences[k]
                    IN  NonEmpty(<<e.position, e.company, e.description>>)])
        edus == Flatten([k \in DOMAIN d.educations |->
                    LET e == d.educations[k]
                    IN  NonEmpty(<<e.degree, e.institution>>)])
        skls == Flatten([k \in DOMAIN d.skills |-> NonEmpty(<<d.skills[k].name>>)])
    IN  Join(personal \o exps \o edus \o skls, " ")

basic_stop_words ==
    {"with", "from", "this", "that", "have", "will", "would",
     "should", "could", "been", "being", "them", "their", "there",
     "these", "those", "which", "where", "when", "what", "work",
     "years", "year", "experience", "skills", "ability", "abilities"}

RECURSIVE SortedByLenDesc(_)
\* sorted(seq, key=len, reverse=True): descending and stable
SortedByLenDesc(seq) ==
    IF seq = <<>> THEN <<>>
    ELSE LET k == CHOOSE a \in DOMAIN seq :
                    /\ \A b \in DOMAIN seq : Len(seq[b]) <= Len(seq[a])
                    /\ \A b \in 1..(a - 1) : Len(seq[b]) < Len(seq[a])
         IN  <<seq[k]>> \o SortedByLenDesc(RemoveAt(seq, k))

BasicMissingCap == 10

basic_find_missing_keywords(resume_text, job_desc, seed) ==
    LET job_words == Range(FindAllAlpha(LowerStr(job_desc), 4))
        resume_words == Range(FindAllAlpha(LowerStr(resume_text), 4))
        missing == (job_words \ resume_words) \ basic_stop_words
    IN  Take(SortedByLenDesc(SetIter(missing, seed)), BasicMissingCap)

HasDigit(s) == \E k \in 1..Len(s) : IsDigit(Ch(s, k))

basic_analyze(resume_data, resume_text_in, job_desc, env) ==
    LET resume_text == IF Truthy(resume_data) /\ resume_text_in = ""
                       THEN basic_extract_text_from_data(resume_data)
                       ELSE resume_text_in
        missing_keywords == IF job_desc # "" /\ resume_text # ""
                            THEN basic_find_missing_keywords(resume_text, job_desc, env.seed)
                            ELSE <<>>
        ats_score == IF missing_keywords # <<>>
                     THEN Max(50, 75 - Len(missing_keywords) * 5)
                     ELSE 75
        no_digit == resume_text # "" /\ ~HasDigit(resume_text)
        suggestions ==
            When(missing_keywords # <<>>,
                 [text |-> "Add " \o ToString(Len(missing_keywords))
                               \o " missing keywords from job description",
                  type |-> "keyword",
                  priority |-> "high"])
            \o When(resume_text # "" /\ Len(resume_text) < 500,
                 [text |-> "Resume seems too short. Consider adding more detail.",
                  type |-> "content",
                  priority |-> "medium"])
            \o When(no_digit,
                 [text |-> "Add quantifiable achievements (numbers, percentages, metrics)",
                  type |-> "achievement",
                  priority |-> "high"])
            \o When(ats_score < 60,
                 [text |-> "Resume needs improvement for ATS compatibility",
                  type |-> "general",
                  priority |-> "high"])
    IN  [raised |-> FALSE,
         result |-> AnalysisResult(ats_score, Take(missing_keywords, BasicMissingCap),
                        suggestions, 80, 70, IF no_digit THEN 40 ELSE 65, 70, 75,
                        [total_words |-> Len(Split(resume_text)),
                         has_contact_info |-> Truthy(resume_data) /\ resume_data.email # "",
                         has_experience |-> Truthy(resume_data) /\ resume_data.experiences # <<>>])]

(***************************************************************************)
(* JobMatcherService (config/ai/services/job_matcher) with the helpers of  *)
(* config/ai/utils it calls.                                               *)
(***************************************************************************)
utils_extract_text_from_resume_data(d) ==
    LET summary == NonEmpty(<<d.summary>>)
        exps == Flatten([k \in DOMAIN d.experiences |->
                    LET e == d.experiences[k]
                    IN  <<e.position \o " at " \o e.company>> \o NonEmpty(<<e.description>>)])
        edus == Flatten([k \in DOMAIN d.educations |->
                    LET e == d.educations[k]
                    IN  <<e.degree \o " in " \o e.field_of_study \o " from " \o e.institution>>])
        skls == IF d.skills = <<>> THEN <<>>
                ELSE <<Join([k \in DOMAIN d.skills |-> d.skills[k].name], ", ")>>
    IN  Join(summary \o exps \o edus \o skls, " ")

utils_stop_words ==
    {"the", "a", "an", "and", "or", "but", "in", "on", "at", "to", "for",
     "of", "with", "by", "from", "as", "is", "was", "are", "were", "be",
     "been", "have", "has", "had", "do", "does", "did", "will", "would",
     "could", "should", "may", "might", "must", "can", "this", "that",
     "these", "those", "i", "you", "he", "she", "it", "we", "they"}

Count(seq, w) == Cardinality({k \in DOMAIN seq : seq[k] = w})

RECURSIVE MostCommon(_, _)
\* Counter(words).most_common(): the distinct words by descending count,
\* equal counts in the order of their first occurrence
MostCommon(words, left) ==
    IF left = {} THEN <<>>
    ELSE LET First(w) == CHOOSE k \in DOMAIN words :
                              words[k] = w /\ \A j \in 1..(k - 1) : words[j] # w
             best == CHOOSE w \in left : \A v \in left \ {w} :
                        \/ Count(words, w) > Count(words, v)
                        \/ Count(words, w) = Count(words, v) /\ First(w) < First(v)
         IN  <<best>> \o MostCommon(words, left \ {best})

TopKeywords == 50

extract_keywords_from_text(text) ==
    LET words == FindAllAlpha(LowerStr(text), 1)
        keywords == SelectSeq(words, LAMBDA w : Len(w) >= MinKeywordLen /\ w \notin utils_stop_words)
    IN  Take(MostCommon(keywords, Range(keywords)), TopKeywords)

\* str.title() of a lowercase word
Title(w) == IF w = "" THEN "" ELSE ToUpper[Ch(w, 1)] \o SubSeq(w, 2, Len(w))

\* int(match_score * 100) for match_score = min(s * 0.6 + s * 0.4, 1.0) with
\* s = k / n: the keyword lists hold each word once, so the weighted and the
\* unique ratio are both k / n.  In floats the sum times 100 truncates to
\* 100k div n for every n <= 50 but 29/50, which gives 57.
MatchScorePct(k, n) ==
    IF n = 0 THEN 0
    ELSE IF <<k, n>> = <<29, 50>> THEN 57
    ELSE (100 * k) \div n

calculate_match_score(resume_keywords, job_keywords) ==
    MatchScorePct(Cardinality(Range(resume_keywords) \cap Range(job_keywords)),
                  Cardinality(Range(job_keywords)))

\* the sort by frequency keeps the list order: every keyword of the list
\* returned by extract_keywords_from_text occurs in it once
matcher_find_missing_keywords(resume_keywords, job_keywords, seed) ==
    LET missing == Range(job_keywords) \ Range(resume_keywords)
        order == SetIter(missing, seed)
    IN  [k \in DOMAIN order |-> Title(order[k])]

find_matched_keywords(resume_keywords, job_keywords, seed) ==
    LET matched == Range(resume_keywords) \cap Range(job_keywords)
        order == SetIter(matched, seed)
    IN  [k \in DOMAIN order |-> Title(order[k])]

categories ==
    [technical_skills |->
        {"javascript", "python", "java", "react", "node", "typescript",
         "aws", "docker", "kubernetes", "sql", "mongodb", "postgresql",
         "git", "api", "microservices", "cloud", "devops"},
     tools |->
        {"git", "jenkins", "jira", "confluence", "slack", "docker",
         "kubernetes", "terraform", "ansible", "aws", "azure", "gcp"},
     methodologies |->
        {"agile", "scrum", "kanban", "devops", "ci/cd", "tdd",
         "bdd", "microservices", "api", "rest"},
     soft_skills |->
        {"leadership", "communication", "teamwork", "problem-solving",
         "collaboration", "analytical", "detail-oriented", "self-motivated"}]

\* a category's value min(matched / in_job * 100, 100) is a float: it is kept
\* as the exact ratio num / den (0.0 is 0 / 1)
calculate_category_matches(resume_text, job_text) ==
    [c \in DOMAIN categories |->
        LET in_job == {kw \in categories[c] : Contains(job_text, kw)}
            matched == {kw \in in_job : Contains(resume_text, kw)}
        IN  IF in_job = {} THEN [num |-> 0, den |-> 1]
            ELSE IF Cardinality(matched) > Cardinality(in_job)
                 THEN [num |-> 100, den |-> 1]
                 ELSE [num |-> 100 * Cardinality(matched), den |-> Cardinality(in_job)]]

category_order == <<"technical_skills", "tools", "methodologies", "soft_skills">>

\* category.replace('_', ' ').title()
category_name ==
    [technical_skills |-> "Technical Skills", tools |-> "Tools",
     methodologies |-> "Methodologies", soft_skills |-> "Soft Skills"]

\* match_score is the float k / n of calculate_match_score: for n <= 50 the
\* comparisons with 0.5 and 0.7 agree with the exact ones
generate_recommendations(k, n, missing_keywords, category_matches) ==
    LET overall == IF n = 0 \/ 2 * k < n
                   THEN <<"Low match score. Consider adding more relevant keywords from the job description.">>
                   ELSE IF 10 * k < 7 * n
                   THEN <<"Moderate match score. Add a few more key skills to improve your match.">>
                   ELSE <<>>
        top == IF missing_keywords = <<>> THEN <<>>
               ELSE <<"Consider adding these keywords: " \o Join(Take(missing_keywords, 5), ", ")>>
        LowCategory(c) ==
            IF category_matches[c].num < 50 * category_matches[c].den
            THEN <<"Low " \o category_name[c] \o " match. Consider adding relevant "
                     \o category_name[c] \o " keywords.">>
            ELSE <<>>
    IN  overall \o top \o Flatten([i \in DOMAIN category_order |-> LowCategory(category_order[i])])

MatcherCap == 15

match(resume_data, job_description, resume_text_in, env) ==
    LET resume_text == IF resume_text_in = ""
                       THEN utils_extract_text_from_resume_data(resume_data)
                       ELSE resume_text_in
        resume_text_lower == LowerStr(resume_text)
        job_text_lower == LowerStr(job_description)
        resume_keywords == extract_keywords_from_text(resume_text_lower)
        job_keywords == extract_keywords_from_text(job_text_lower)
        missing_keywords == matcher_find_missing_keywords(resume_keywords, job_keywords, env.seed)
        matched_keywords == find_matched_keywords(resume_keywords, job_keywords, env.seed)
    IN  [missing_keywords |-> Take(missing_keywords, MatcherCap),
         matched_keywords |-> Take(matched_keywords, MatcherCap),
         category_matches |-> calculate_category_matches(resume_text_lower, job_text_lower),
         match_score |-> Min(calculate_match_score(resume_keywords, job_keywords), 100),
         resume_keyword_count |-> Len(resume_keywords),
         job_keyword_count |-> Len(job_keywords),
         keyword_overlap |-> Len(matched_keywords),
         recommendations |-> generate_recommendations(
             Cardinality(Range(resume_keywords) \cap Range(job_keywords)),
             Cardinality(Range(job_keywords)), missing_keywords,
             calculate_category_matches(resume_text_lower, job_text_lower))]

(***************************************************************************)
(* The inputs: resumes, job descriptions and deployments the model runs.   *)
(***************************************************************************)
StructuredResume ==
    [NoData EXCEPT
        !.has_keys = TRUE,
        !.summary = "Experienced developer",
        !.optimized_summary = "Expert in Docker and Heroku deployment",
        !.skills = <<[name |-> "Python"], [name |-> "Docker"]>>,
        !.projects = <<[title |-> "Web App", description |-> "Deployed on Heroku with Docker containers",
                        technologies |-> "React, Node.js, Heroku"]>>,
        !.certifications = <<[name |-> "AWS Certified Developer", issuer |-> ""]>>,
        !.experiences = <<[position |-> "Developer", company |-> "",
                           description |-> "Developed Python applications with Docker"]>>]

\* a structured resume whose descriptions are written as bullets
BulletedResume ==
    [NoData EXCEPT
        !.has_keys = TRUE,
        !.projects = <<[title |-> "Web App", description |-> "- Built api",
                        technologies |-> "React"]>>,
        !.experiences = <<[position |-> "Developer", company |-> "",
                           description |-> "- Led team\n- Cut cost 25%"]>>]

\* a structured resume with a skill and a technology of two letters
ShortSkillResume ==
    [NoData EXCEPT
        !.has_keys = TRUE,
        !.summary = "Backend developer",
        !.skills = <<[name |-> "Go"], [name |-> "Python"]>>,
        !.projects = <<[title |-> "Web App", description |-> "",
                        technologies |-> "React, JS"]>>]

\* a structured resume that speaks of a project and has neither a projects
\* nor a certifications section
ProjectWordResume ==
    [NoData EXCEPT !.has_keys = TRUE, !.summary = "Led a project team"]

\* a stored resume with contact details and nothing else
EmailOnlyResume == [NoData EXCEPT !.has_keys = TRUE, !.email = "ann@example.com"]

EducationResume ==
    [NoData EXCEPT
        !.has_keys = TRUE,
        !.educations = <<[degree |-> "BSc", institution |-> "Delft",
                          field_of_study |-> "Robotics"]>>,
        !.certifications = <<[name |-> "Cloud Practitioner", issuer |-> "Amazon"]>>]

SummaryResume ==
    [NoData EXCEPT !.has_keys = TRUE, !.summary = "HTML5 expert with strong skills"]

DockerReactText == "Experienced developer with Docker and React skills."
PythonAwsText == "Python developer with AWS and Docker experience."
MetricsText == "Increased revenue by 25%. Managed team of 10. Saved $50K."
BulletsText == "- Developed api, cut cost 25%\n- Led team of 10\n* Built 5K tools"
TypoText == "Engineer, kubernets and postgres."

\* the vocabulary the long job description is written in: no word of it
\* occurs in the resume it is posted with
JobVocabulary ==
    <<"sql", "git", "gcp", "aws", "php", "vue", "css", "xml", "ios", "npm",
      "jvm", "gpu", "cli", "sdk", "etl", "orm", "ssh", "tcp", "dns", "api">>

\* the number of keywords of the longest job description
MaxJobKeywords == 17

LongJobDesc == Join(Take(JobVocabulary, MaxJobKeywords), ", ")

\* a job description of as many keywords, three of them longer than the rest
MixedJobDesc ==
    Join(Take(JobVocabulary, MaxJobKeywords - 3), ", ") \o ", rust, terraform, kubernetes"

\* a job description that names its keywords three times, twice and once
RepeatingJobDesc == "Kubernetes, kubernetes, terraform, kubernetes, terraform, git"

\* the k-th of a row of distinct three-letter words
FillerWord(k) ==
    "k" \o Ch(LowerLetters, (k \div 26) + 1) \o Ch(LowerLetters, (k % 26) + 1)

\* a resume text of more distinct words than extract_keywords_from_text
\* returns: as many filler words as that, then docker
CrowdedResumeText ==
    Join([k \in 1..TopKeywords |-> FillerWord(k)], " ") \o " docker"

Req(resume_data, resume_text, job_desc) ==
    [resume_data |-> resume_data, resume_text |-> resume_text, job_desc |-> job_desc]

AnalyzeSamples ==
    <<Req(NoData, DockerReactText, "Looking for developer with docker, aws, heroku experience."),
      Req(NoData, DockerReactText, "Docker, React, AWS"),
      Req(NoData, PythonAwsText, "Python, AWS, Docker, Kubernetes, React"),
      Req(NoData, MetricsText, ""),
      Req(NoData, BulletsText, ""),
      Req(NoData, BulletsText, "Python, AWS, Docker, Kubernetes, React"),
      Req(NoData, DockerReactText, "aws gcp sql"),
      Req(NoData, DockerReactText, LongJobDesc),
      Req(NoData, TypoText, "Kubernetes, Postgresql, Redis"),
      Req(NoData, DockerReactText, "and the for"),
      Req(StructuredResume, "", "Python, React, AWS, Docker, Heroku"),
      Req(StructuredResume, MetricsText, ""),
      Req(EmailOnlyResume, "", "Looking for developer with docker, aws, heroku experience."),
      Req(EducationResume, "", "Robotics degree, Amazon cloud, Delft"),
      Req(SummaryResume, "", "html5 skills")>>

MatchSamples ==
    <<Req(StructuredResume, "", "Python, AWS, Docker, Kubernetes, React"),
      Req(NoData, DockerReactText, "Looking for developer with docker, aws, heroku experience."),
      Req(NoData, PythonAwsText, "Agile python team: python, git, docker, leadership"),
      Req(EducationResume, "", "Robotics degree, Amazon cloud, Delft"),
      Req(NoData, "", "aws gcp sql"),
      Req(NoData, DockerReactText, RepeatingJobDesc),
      Req(NoData, CrowdedResumeText, "Docker, React"),
      Req(NoData, TypoText, "and the for")>>

\* what textstat.flesch_reading_ease can return for a text: the formula is
\* not bounded by 0 and 100
FleschValues == <<-30, 45, 125>>

\* the number of hash seeds an interpreter can start with
NumHashSeeds == 2

LLMAbsent == [importable |-> TRUE, api_key |-> FALSE, reply |-> [items |-> <<>>, kind |-> "raise"]]
LLMNotImportable == [importable |-> FALSE, api_key |-> TRUE, reply |-> [items |-> <<>>, kind |-> "raise"]]
LLMFails == [importable |-> TRUE, api_key |-> TRUE, reply |-> [items |-> <<>>, kind |-> "raise"]]
LLMMocked ==
    [importable |-> TRUE, api_key |-> TRUE,
     reply |-> [items |-> <<"Python", "HTML5", "Skills", "AWS ", "go", "docker">>, kind |-> "list"]]

\* the LLM answers with a JSON object
LLMNotList == [importable |-> TRUE, api_key |-> TRUE, reply |-> [items |-> <<>>, kind |-> "notlist"]]
\* the LLM answers with prose that quotes the keywords
LLMInvalid ==
    [importable |-> TRUE, api_key |-> TRUE,
     reply |-> [content |-> "Keywords: \"Docker\", \"AWS \", \"go\" and \"Heroku\"", items |-> <<>>,
                kind |-> "invalid"]]

Stack(l, lib, textstat, seed) ==
    [seed |-> seed, lib |-> lib, textstat |-> textstat,
     importable |-> l.importable, api_key |-> l.api_key, reply |-> l.reply]

\* the deployments: what is installed and configured, and the hash seed the
\* interpreter started with
Deployments ==
    UNION {{Stack(LLMAbsent, "rapidfuzz", NoTextstat, seed),
            Stack(LLMAbsent, "difflib", "installed", seed),
            Stack(LLMNotImportable, "rapidfuzz", "installed", seed),
            Stack(LLMFails, "difflib", NoTextstat, seed),
            Stack(LLMMocked, "rapidfuzz", "installed", seed),
            Stack(LLMMocked, "difflib", NoTextstat, seed),
            Stack(LLMNotList, "rapidfuzz", NoTextstat, seed),
            Stack(LLMInvalid, "rapidfuzz", "installed", seed)} :
                seed \in 0..(NumHashSeeds - 1)}

(***************************************************************************)
(* The state machine: requests arrive at the analyze-resume and match-job  *)
(* endpoints of AIViewSet, the handlers run the services, the interpreter  *)
(* can be restarted.                                                       *)
(***************************************************************************)
VARIABLES
    env,        \* the deployment: LLM, fuzzy library, textstat, hash seed
    proc,       \* the lazily initialised LangChain globals and LLM client
    pc,         \* "idle", "called" (a request is in flight) or "returned"
    request,    \* the request in flight or last served
    analysis,   \* the outcome of EnhancedATSAnalyzerService.analyze for it
    response,   \* the HTTP response of the handler
    prev        \* the call the present one repeats or extends, if any

\* the other endpoints: their handlers run step by step against the stores
VARIABLES
    calls,      \* the handlers in flight, each with its position and locals
    cache,      \* the Django cache: the guest counters
    allowed,    \* per counter, the requests let through in its window
    drafts,     \* the ResumeDraft table, by guest_id
    resumes,    \* the resumes table
    items,      \* the section tables: the order of each entry
    store       \* the stored resume the suggestion applier works on

analyzerVars == <<env, proc, pc, request, analysis, response, prev>>
storeVars == <<calls, cache, allowed, drafts, resumes, items, store>>

vars == <<env, proc, pc, request, analysis, response, prev, calls, cache, allowed, drafts, resumes, items, store>>

\* the stores before anything is stored
StoresEmpty ==
    /\ calls = <<>>
    /\ cache = <<>>
    /\ allowed = <<>>
    /\ drafts = <<>>
    /\ resumes = <<>>
    /\ items = <<>>
    /\ store = <<>>

NoRequest == [resume_data |-> NoData, resume_text |-> "", flesch |-> 0, job_desc |-> "", op |-> "none"]
NoAnalysis == [raised |-> FALSE, pending |-> TRUE]
NoResponse == [status |-> 0]
NoPrev == [kind |-> "none"]

AnalyzeRequest(k) ==
    [resume_data |-> AnalyzeSamples[k].resume_data,
     resume_text |-> AnalyzeSamples[k].resume_text,
     flesch |-> FleschValues[(k % Len(FleschValues)) + 1],
     job_desc |-> AnalyzeSamples[k].job_desc,
     op |-> "analyze"]

MatchRequest(k) ==
    [resume_data |-> MatchSamples[k].resume_data,
     resume_text |-> MatchSamples[k].resume_text,
     flesch |-> 0,
     job_desc |-> MatchSamples[k].job_desc,
     op |-> "match"]

Init ==
    /\ env \in Deployments
    /\ proc = FreshProcess
    /\ pc = "idle"
    /\ request = NoRequest
    /\ analysis = NoAnalysis
    /\ response = NoResponse
    /\ prev = NoPrev
    /\ StoresEmpty

\* a client posts a new request; it is one that passes the handler's checks
\* (throttle, serializer, ownership of the stored resume, resume_id or
\* resume_text present)
Submit(r) ==
    /\ pc \in {"idle", "returned"}
    /\ request' = r
    /\ pc' = "called"
    /\ analysis' = NoAnalysis
    /\ response' = NoResponse
    /\ prev' = NoPrev
    /\ UNCHANGED <<env, proc>>
    /\ UNCHANGED storeVars

\* AIViewSet.analyze_resume: the view instance creates its analyzers, calls
\* the enhanced analyzer and, when that raises, the basic one.  The response
\* serializer declares the nine keys of the result, so the body is the
\* result (the pro_tip the view adds is not a declared field).  The basic
\* analyzer raises on none of these requests: the 500 answer is not produced.
AnalyzeResume ==
    /\ pc = "called"
    /\ request.op = "analyze"
    /\ LET inst == FreshInstance(proc)
           enhanced == analyze(request.resume_data, request.resume_text,
                               request.job_desc, request.flesch, inst, env)
       IN  /\ analysis' = enhanced
           /\ proc' = ProcAfterAnalyze(request.resume_data, request.resume_text,
                                       request.job_desc, inst, env)
           /\ response' =
                IF ~enhanced.raised
                THEN [status |-> 200, via |-> "enhanced", body |-> enhanced.result]
                ELSE [status |-> 200, via |-> "basic",
                      body |-> basic_analyze(request.resume_data, request.resume_text,
                                             request.job_desc, env).result]
    /\ pc' = "returned"
    /\ UNCHANGED <<env, request, prev>>
    /\ UNCHANGED storeVars

\* AIViewSet.analyze_resume for a request with neither resume_id nor
\* resume_text: the request serializer's validate rejects it and no analyzer
\* is called
RejectWithoutResume(job_desc) ==
    /\ pc \in {"idle", "returned"}
    /\ request' = [NoRequest EXCEPT !.job_desc = job_desc, !.op = "analyze_invalid"]
    /\ response' = [status |-> 400, via |-> "serializer"]
    /\ analysis' = NoAnalysis
    /\ prev' = NoPrev
    /\ pc' = "returned"
    /\ UNCHANGED <<env, proc>>
    /\ UNCHANGED storeVars

\* AIViewSet.match_job
MatchJob ==
    /\ pc = "called"
    /\ request.op = "match"
    /\ response' = [status |-> 200, via |-> "matcher",
                    body |-> match(request.resume_data, request.job_desc,
                                   request.resume_text, env)]
    /\ pc' = "returned"
    /\ UNCHANGED <<env, proc, request, analysis, prev>>
    /\ UNCHANGED storeVars

\* the same request is posted again
Resubmit ==
    /\ pc = "returned"
    /\ request.op = "analyze"
    /\ prev = NoPrev
    /\ prev' = [kind |-> "same", request |-> request, analysis |-> analysis,
                response |-> response]
    /\ pc' = "called"
    /\ analysis' = NoAnalysis
    /\ response' = NoResponse
    /\ UNCHANGED <<env, proc, request>>
    /\ UNCHANGED storeVars

\* the resume text is posted again with a keyword of the job description
\* appended to it
SubmitWithKeyword(k) ==
    /\ pc = "returned"
    /\ request.op = "analyze"
    /\ prev = NoPrev
    /\ ~Truthy(request.resume_data)
    /\ ~analysis.raised
    /\ k \in analysis.job_keywords
    /\ prev' = [keyword |-> k, kind |-> "keyword", request |-> request,
                analysis |-> analysis, response |-> response]
    /\ request' = [request EXCEPT !.resume_text = @ \o " " \o k]
    /\ pc' = "called"
    /\ analysis' = NoAnalysis
    /\ response' = NoResponse
    /\ UNCHANGED <<env, proc>>
    /\ UNCHANGED storeVars

\* the server process is restarted: the module globals are reset and the
\* interpreter draws a new hash seed
Restart ==
    /\ pc = "returned"
    /\ prev = NoPrev
    /\ \E seed \in 0..(NumHashSeeds - 1) : env' = [env EXCEPT !.seed = seed]
    /\ proc' = FreshProcess
    /\ UNCHANGED <<pc, request, analysis, response, prev>>
    /\ UNCHANGED storeVars

Next ==
    \/ \E k \in DOMAIN AnalyzeSamples : Submit(AnalyzeRequest(k))
    \/ \E k \in DOMAIN MatchSamples : Submit(MatchRequest(k))
    \/ AnalyzeResume
    \/ \E job_desc \in {"", "aws gcp sql"} : RejectWithoutResume(job_desc)
    \/ MatchJob
    \/ Resubmit
    \/ \E k \in (IF pc = "returned" /\ request.op = "analyze" /\ ~analysis.raised
                 THEN analysis.job_keywords ELSE {}) : SubmitWithKeyword(k)
    \/ Restart

Spec == Init /\ [][Next]_vars

(***************************************************************************)
(* The analyzer called as a library, as the repository's tests do: one     *)
(* EnhancedATSAnalyzerService instance, analyze called with resume_data    *)
(* the caller built, which can hold an entry that is no dict.              *)
(***************************************************************************)
\* the structured resume with one more entry, no dict, in one section
WithMalformed(section) ==
    [StructuredResume EXCEPT ![section] = Append(@, NotADict)]

DirectSamples ==
    <<Req(WithMalformed("experiences"), "", "Python, React, AWS, Docker, Heroku"),
      Req(WithMalformed("projects"), "", ""),
      Req(WithMalformed("skills"), MetricsText, "aws gcp sql"),
      Req(WithMalformed("certifications"), "", "html5 skills"),
      Req(WithMalformed("educations"), "", "Robotics degree, Amazon cloud, Delft"),
      Req(StructuredResume, "", "Python, React, AWS, Docker, Heroku"),
      Req(NoData, DockerReactText, "aws gcp sql"),
      Req(NoData, DockerReactText, MixedJobDesc),
      Req(BulletedResume, "", ""),
      Req(ShortSkillResume, "", "Python, Go, React"),
      Req(ProjectWordResume, "", "aws gcp sql"),
      Req(NoData, "", "")>>

DirectRequest(k) ==
    [resume_data |-> DirectSamples[k].resume_data,
     resume_text |-> DirectSamples[k].resume_text,
     flesch |-> FleschValues[(k % Len(FleschValues)) + 1],
     job_desc |-> DirectSamples[k].job_desc,
     op |-> "direct"]

InitDirect ==
    /\ env \in Deployments
    /\ proc = FreshProcess
    /\ pc = "called"
    /\ request \in {DirectRequest(k) : k \in DOMAIN DirectSamples}
    /\ analysis = NoAnalysis
    /\ response = NoResponse
    /\ prev = NoPrev
    /\ StoresEmpty

\* analyzer.analyze(resume_data=..., resume_text=..., job_desc=...)
CallAnalyze ==
    /\ pc = "called"
    /\ request.op = "direct"
    /\ analysis' = analyze(request.resume_data, request.resume_text,
                           request.job_desc, request.flesch, proc, env)
    /\ proc' = ProcAfterAnalyze(request.resume_data, request.resume_text,
                                request.job_desc, proc, env)
    /\ pc' = "returned"
    /\ UNCHANGED <<env, request, response, prev>>
    /\ UNCHANGED storeVars

\* the caller goes on with the same instance and other arguments
CallAgain(r) ==
    /\ pc = "returned"
    /\ request.op = "direct"
    /\ request' = r
    /\ analysis' = NoAnalysis
    /\ pc' = "called"
    /\ UNCHANGED <<env, proc, response, prev>>
    /\ UNCHANGED storeVars

NextDirect ==
    \/ CallAnalyze
    \/ \E k \in DOMAIN DirectSamples : CallAgain(DirectRequest(k))

SpecDirect == InitDirect /\ [][NextDirect]_vars

(***************************************************************************)
(* Applying suggestions: AIViewSet.apply_suggestions, its rule-based       *)
(* fallback for plain text, and SuggestionApplierService, which writes to  *)
(* the stored resume.  A stored resume is a resume data record whose       *)
(* experience and project entries carry their row id.                      *)
(***************************************************************************)
RECURSIVE SplitOnFrom(_, _, _)
SplitOnFrom(s, i, c) ==
    LET j == FirstIn(s, i, {c})
    IN  IF j > Len(s) THEN <<SubSeq(s, i, Len(s))>>
        ELSE <<SubSeq(s, i, j - 1)>> \o SplitOnFrom(s, j + 1, c)

\* text.split('\n')
SplitLines(s) == SplitOnFrom(s, 1, "\n")

\* pat is in s at index i
OccursAt(s, i, pat) ==
    i >= 1 /\ i + Len(pat) - 1 <= Len(s) /\ SubSeq(s, i, i + Len(pat) - 1) = pat

\* the first index >= i where pat occurs in s, 0 when there is none
IndexOf(s, pat, i) ==
    LET C == {j \in i..(Len(s) - Len(pat) + 1) : OccursAt(s, j, pat)}
    IN  IF C = {} THEN 0 ELSE CHOOSE j \in C : \A k \in C : j <= k

RECURSIVE ReplaceFrom(_, _, _, _)
ReplaceFrom(s, old, new, i) ==
    LET j == IndexOf(s, old, i)
    IN  IF j = 0 THEN SubSeq(s, i, Len(s))
        ELSE SubSeq(s, i, j - 1) \o new \o ReplaceFrom(s, old, new, j + Len(old))

\* s.replace(old, new) for a non-empty old
Replace(s, old, new) == ReplaceFrom(s, old, new, 1)

\* line.startswith(('•', '-', '*'))
StartsWithBullet(line) == line # "" /\ Ch(line, 1) \in BulletMarks

\* len(re.findall(r'[•\-\*]', text))
CountBulletMarks(text) == Cardinality({k \in 1..Len(text) : Ch(text, k) \in BulletMarks})

\* SuggestionApplierService._format_as_bullets
format_as_bullets(text) ==
    LET lines == SplitLines(text)
        kept == SelectSeq([k \in DOMAIN lines |-> Strip(lines[k])], LAMBDA l : l # "")
    IN  Join([k \in DOMAIN kept |->
                 IF StartsWithBullet(kept[k]) THEN kept[k]
                 ELSE BulletChar \o " " \o kept[k]], "\n")

\* a description with a metric nobody stated
InventedMetrics(description) == description \o " by 25%"

\* SuggestionApplierService._enhance_with_metrics
enhance_with_metrics(description) == description

\* the strings an LLM reply is cut down to: strip(), and the inside of the
\* first code fence when there is one (the samples have none)
ReplyText(dep) == Strip(dep.reply.enhanced)

\* SuggestionApplierService._enhance_description_with_keywords
enhance_description_with_keywords(description, keywords, dep) ==
    IF description = "" \/ keywords = <<>> THEN description
    ELSE IF dep.reply.kind = "placement" THEN ReplyText(dep)
    ELSE description

\* the writes a step issues, in order, and the changes it reports
NoChanges == [writes |-> <<>>, changes |-> <<>>]

Both(a, b) == [writes |-> a.writes \o b.writes, changes |-> a.changes \o b.changes]

RECURSIVE AllOf(_)
AllOf(steps) == IF steps = <<>> THEN NoChanges ELSE Both(Head(steps), AllOf(Tail(steps)))

CreateSkill(keyword, resume_data) ==
    [writes |-> <<[name |-> Title(keyword), order |-> Len(resume_data.skills), op |-> "create",
                   table |-> "skills"]>>,
     changes |-> <<"Added '" \o keyword \o "' to Skills section">>]

UpdateDescription(table, entry, description, change) ==
    [writes |-> <<[description |-> description, op |-> "update", table |-> table,
                   id |-> entry.id]>>,
     changes |-> <<change>>]

\* the storage after the writes
RECURSIVE ApplyWrites(_, _)
ApplyWrites(d, writes) ==
    IF writes = <<>> THEN d
    ELSE LET w == Head(writes)
             d1 == IF w.op = "create"
                   THEN [d EXCEPT !.skills = Append(@, [name |-> w.name])]
                   ELSE [d EXCEPT ![w.table] =
                            [k \in DOMAIN @ |->
                                IF @[k].id = w.id
                                THEN [@[k] EXCEPT !.description = w.description]
                                ELSE @[k]]]
         IN  ApplyWrites(d1, Tail(writes))

\* the keyword placement the LLM answered with, applied
PlaceKeywords(resume_data, dep) ==
    LET existing_skills == {LowerStr(resume_data.skills[k].name) : k \in DOMAIN resume_data.skills}
        add == dep.reply.skills_to_add
        ups(table, updates, label, name) ==
            AllOf([k \in DOMAIN updates |->
                LET idx == updates[k].index + 1
                    keywords == updates[k].keywords
                IN  IF idx \in DOMAIN resume_data[table]
                       /\ keywords # <<>> /\ resume_data[table][idx].id # ""
                    THEN LET entry == resume_data[table][idx]
                         IN  UpdateDescription(table, entry,
                                 enhance_description_with_keywords(entry.description, keywords, dep),
                                 "Enhanced " \o label \o " '" \o entry[name]
                                     \o "' with keywords: " \o Join(keywords, ", "))
                    ELSE NoChanges])
    IN  AllOf(<<AllOf([k \in DOMAIN add |->
                    IF LowerStr(add[k]) \notin existing_skills
                    THEN CreateSkill(add[k], resume_data) ELSE NoChanges]),
                ups("experiences", dep.reply.experience_updates, "experience", "position"),
                ups("projects", dep.reply.project_updates, "project", "title")>>)

FallbackSkills == 5

\* SuggestionApplierService._apply_keyword_suggestions
apply_keyword_suggestions(resume_data, missing_keywords, dep) ==
    IF missing_keywords = <<>> THEN NoChanges
    ELSE IF dep.reply.kind = "placement" THEN PlaceKeywords(resume_data, dep)
    ELSE LET first == Take(missing_keywords, FallbackSkills)
         IN  AllOf([k \in DOMAIN first |-> CreateSkill(first[k], resume_data)])

\* SuggestionApplierService._apply_achievement_suggestions
apply_achievement_suggestions(resume_data) ==
    AllOf([k \in DOMAIN resume_data.experiences |->
        LET exp == resume_data.experiences[k]
            enhanced == enhance_with_metrics(exp.description)
        IN  IF exp.description # "" /\ exp.id # "" /\ ~HasDigit(exp.description)
               /\ enhanced # exp.description
            THEN UpdateDescription("experiences", exp, enhanced,
                     "Added metrics to experience '" \o exp.position \o "'")
            ELSE NoChanges])

\* SuggestionApplierService._apply_formatting_suggestions
apply_formatting_suggestions(resume_data) ==
    AllOf([k \in DOMAIN resume_data.experiences |->
        LET exp == resume_data.experiences[k]
            formatted == format_as_bullets(exp.description)
        IN  IF exp.description # "" /\ exp.id # ""
               /\ ~Contains(exp.description, BulletChar) /\ ~Contains(exp.description, "-")
               /\ formatted # exp.description
            THEN UpdateDescription("experiences", exp, formatted,
                     "Formatted experience '" \o exp.position \o "' as bullets")
            ELSE NoChanges])

HasType(suggestions, type) == \E k \in DOMAIN suggestions : suggestions[k].type = type

\* SuggestionApplierService.apply_suggestions: the outcome, with the writes
\* it issued (by step) and the stored resume after them
apply_suggestions(resume_data, suggestions, missing_keywords, dep) ==
    LET k == IF missing_keywords # <<>> \/ HasType(suggestions, "keyword")
             THEN apply_keyword_suggestions(resume_data, missing_keywords, dep)
             ELSE NoChanges
        d1 == ApplyWrites(resume_data, k.writes)
        a == IF HasType(suggestions, "achievement")
             THEN apply_achievement_suggestions(d1) ELSE NoChanges
        d2 == ApplyWrites(d1, a.writes)
        f == IF HasType(suggestions, "formatting")
             THEN apply_formatting_suggestions(d2) ELSE NoChanges
        refreshed_data == ApplyWrites(d2, f.writes)
    IN  IF ~dep.api_key THEN Raised("ValueError")
        ELSE [achievement |-> [changes |-> a.changes, before |-> d1, after |-> d2,
                               asked |-> HasType(suggestions, "achievement")],
              raised |-> FALSE,
              result |-> [resume_data |-> refreshed_data,
                          optimized_text |-> utils_extract_text_from_resume_data(refreshed_data),
                          changes_applied |-> k.changes \o a.changes \o f.changes],
              writes |-> [keyword |-> k.writes, achievement |-> a.writes,
                          formatting |-> f.writes],
              stored |-> refreshed_data]

(***************************************************************************)
(* AIViewSet._apply_suggestions_rule_based.                                *)
(***************************************************************************)
SkillsHeads == <<"skills", "technologies", "technical skills">>
ExperienceHeads == <<"experience", "work", "employment", "achievements">>
OtherHeads == <<"education", "skills", "summary">>
rule_action_verbs ==
    <<"developed", "implemented", "created", "managed", "led", "achieved",
      "increased", "improved">>

RuleKeywords == 10
MinBulletLine == 30

StartsWithAny(low, heads) ==
    \E k \in DOMAIN heads : OccursAt(low, 1, heads[k])

\* re.search(r'(skills|technologies|technical skills)[:.\s]*([^\n]*)', text,
\* re.IGNORECASE): <<start of the match, end of group 1, start of group 2,
\* end of the match>>, or <<>> when nothing matches
SkillsSearch(text) ==
    LET low == LowerStr(text)
        at(i) == {k \in DOMAIN SkillsHeads : OccursAt(low, i, SkillsHeads[k])}
        C == {i \in 1..Len(text) : at(i) # {}}
    IN  IF C = {} THEN <<>>
        ELSE LET i == CHOOSE x \in C : \A y \in C : x <= y
                 h == CHOOSE k \in at(i) : \A m \in at(i) : k <= m
                 e1 == i + Len(SkillsHeads[h]) - 1
                 g2 == SpanIn(text, e1 + 1, {":", "."} \cup SpaceSet)
                 e0 == FirstIn(text, g2, {"\n"}) - 1
             IN  <<i, e1, g2, e0>>

TitleList(keywords) == Join([k \in DOMAIN keywords |-> Title(keywords[k])], ", ")

\* the keywords written into the text, after the Skills heading or as a new
\* Skills line on top
WithKeywords(text, keywords_to_add) ==
    LET m == SkillsSearch(text)
    IN  IF m = <<>> THEN "Skills: " \o TitleList(keywords_to_add) \o "\n\n" \o text
        ELSE LET group0 == SubSeq(text, m[1], m[4])
                 group1 == SubSeq(text, m[1], m[2])
                 existing_skills == SubSeq(text, m[3], m[4])
             IN  Replace(text, group0,
                     IF Strip(existing_skills) # ""
                     THEN group1 \o ": " \o existing_skills \o ", " \o TitleList(keywords_to_add)
                     ELSE group1 \o ": " \o TitleList(keywords_to_add))

RECURSIVE ImprovedLines(_, _)
\* the loop over the lines, in_experience carried from line to line
ImprovedLines(lines, in_experience) ==
    IF lines = <<>> THEN <<>>
    ELSE LET line == Head(lines)
             line_stripped == Strip(line)
             low == LowerStr(line_stripped)
             now == IF StartsWithAny(low, ExperienceHeads) THEN TRUE
                    ELSE IF StartsWithAny(low, OtherHeads) THEN FALSE
                    ELSE in_experience
             bullet == /\ now
                       /\ line_stripped # ""
                       /\ ~StartsWithBullet(line_stripped)
                       /\ Len(line_stripped) > MinBulletLine
                       /\ \E k \in DOMAIN rule_action_verbs : Contains(low, rule_action_verbs[k])
         IN  <<IF bullet THEN BulletChar \o " " \o line_stripped ELSE line>>
             \o ImprovedLines(Tail(lines), now)

\* AIViewSet._apply_suggestions_rule_based
apply_suggestions_rule_based(resume_text, suggestions, missing_keywords) ==
    LET keywords_to_add == Take(missing_keywords, RuleKeywords)
        with_keywords == IF missing_keywords # <<>>
                         THEN WithKeywords(resume_text, keywords_to_add)
                         ELSE resume_text
        keyword_changes == IF missing_keywords # <<>>
                           THEN <<"Added " \o ToString(Len(keywords_to_add)) \o " keywords">>
                           ELSE <<>>
        optimized_text == Join(ImprovedLines(SplitLines(with_keywords), FALSE), "\n")
        added == CountBulletMarks(optimized_text) - CountBulletMarks(with_keywords)
        changes_applied ==
            keyword_changes
            \o (IF added > 0 THEN <<"Added " \o ToString(added) \o " bullet points">> ELSE <<>>)
    IN  [optimized_text |-> optimized_text,
         changes_applied |-> IF changes_applied = <<>>
                             THEN <<"Applied basic formatting improvements">>
                             ELSE changes_applied]

(***************************************************************************)
(* The apply-suggestions endpoint as a state machine: one stored resume,   *)
(* owned by StoredOwner; requests from its owner, another user and guests. *)
(* The requests are within the guest rate limit.                           *)
(***************************************************************************)
StoredOwner == "u1"
StoredId == "r1"

StoredStructured ==
    [StructuredResume EXCEPT
        !.experiences =
            <<[position |-> "Developer", company |-> "", description |-> "Developed Python applications with Docker",
               id |-> "e1"],
              [position |-> "Lead", company |-> "Acme", description |-> "Built the billing API\nLed a team",
               id |-> "e2"]>>,
        !.projects = <<[title |-> "Web App", description |-> "Deployed on Heroku with Docker containers",
                        technologies |-> "React, Node.js, Heroku",
                        id |-> "p1"]>>]

StoredBulleted ==
    [StoredStructured EXCEPT
        !.experiences = <<[position |-> "Developer", company |-> "", description |-> "~ Cut costs 20%\n~ Led a team",
                           id |-> "e1"]>>,
        !.skills = <<>>]

StoredResumes == {StoredStructured, StoredBulleted}

\* the LLM answers the placement prompt and the rewriting prompts
LLMPlaces ==
    [importable |-> TRUE, api_key |-> TRUE,
     reply |-> [items |-> <<>>, kind |-> "placement",
                enhanced |-> " Led a team that shipped on AWS ",
                skills_to_add |-> <<"aws", "docker">>,
                experience_updates |-> <<[keywords |-> <<"aws">>, index |-> 1],
                                         [keywords |-> <<"aws">>, index |-> 7]>>,
                project_updates |-> <<[keywords |-> <<"aws", "gcp">>, index |-> 0]>>]]

SuggestDeployments ==
    {Stack(LLMAbsent, "rapidfuzz", "installed", 0),
     Stack(LLMFails, "rapidfuzz", "installed", 0),
     Stack(LLMPlaces, "rapidfuzz", "installed", 0)}

Suggestion(type) == [text |-> "Improve the resume", type |-> type, priority |-> "high"]

SuggestionLists ==
    {<<>>, <<Suggestion("achievement")>>, <<Suggestion("formatting")>>,
     <<Suggestion("keyword"), Suggestion("achievement"), Suggestion("formatting")>>}

KeywordLists == {<<>>, <<"aws", "gcp">>}

PlainResumeText ==
    "Summary\nEngineer\nExperience\nDeveloped and improved the billing service for customers\nSkills: Python"
NoSkillsText == "Experience\nManaged the team"

ResumeTexts == {"", "  ", PlainResumeText, NoSkillsText}

\* the skills a stored resume is let grow to
MaxStoredSkills == 4

ApplyRequests ==
    [op : {"apply_suggestions"}, user : {"", StoredOwner, "u2"},
     resume_id : {"", StoredId, "gone"}, resume_text : ResumeTexts,
     suggestions : SuggestionLists, missing_keywords : KeywordLists]

InitSuggest ==
    /\ env \in SuggestDeployments
    /\ proc = FreshProcess
    /\ pc = "idle"
    /\ request = NoRequest
    /\ analysis = NoAnalysis
    /\ response = NoResponse
    /\ prev = NoPrev
    /\ calls = <<>> /\ cache = <<>> /\ allowed = <<>> /\ drafts = <<>>
    /\ resumes = <<>> /\ items = <<>>
    /\ store \in StoredResumes

SubmitApply(r) ==
    /\ pc \in {"idle", "returned"}
    /\ Len(store.skills) < MaxStoredSkills
    /\ request' = r
    /\ response' = NoResponse
    /\ pc' = "called"
    /\ UNCHANGED <<env, proc, analysis, prev, calls, cache, allowed, drafts, resumes, items, store>>

\* the response of the text-only mode
TextModeResponse(r) ==
    IF Strip(r.resume_text) = "" THEN [status |-> 400, via |-> "resume_text"]
    ELSE IF r.suggestions = <<>> THEN [status |-> 400, via |-> "suggestions"]
    ELSE IF env.api_key /\ env.reply.kind = "placement"
    THEN [status |-> 200, via |-> "llm",
          body |-> [optimized_text |-> ReplyText(env),
                    changes_applied |->
                        <<"Applied " \o ToString(Len(r.suggestions)) \o " suggestion(s) using AI",
                          IF r.missing_keywords # <<>>
                          THEN "Incorporated " \o ToString(Len(r.missing_keywords))
                                   \o " missing keywords"
                          ELSE "Enhanced resume structure and formatting">>]]
    ELSE [status |-> 200, via |-> "rule_based",
          body |-> apply_suggestions_rule_based(r.resume_text, r.suggestions,
                                                r.missing_keywords)]

\* AIViewSet.apply_suggestions
ApplySuggestions ==
    /\ pc = "called"
    /\ request.op = "apply_suggestions"
    /\ pc' = "returned"
    /\ IF request.user # "" /\ request.resume_id # ""
       THEN IF request.resume_id # StoredId
            THEN response' = [status |-> 404, via |-> "resume"] /\ store' = store
            ELSE IF request.user # StoredOwner
            THEN response' = [status |-> 403, via |-> "resume"] /\ store' = store
            ELSE IF request.suggestions = <<>>
            THEN response' = [status |-> 400, via |-> "suggestions"] /\ store' = store
            ELSE LET out == apply_suggestions(store, request.suggestions,
                                              request.missing_keywords, env)
                 IN  IF out.raised
                     THEN response' = [error |-> out.error, status |-> 500, via |-> "applier"]
                          /\ store' = store
                     ELSE response' = [achievement |-> out.achievement, status |-> 200, via |-> "applier",
                                       body |-> out.result,
                                       writes |-> out.writes]
                          /\ store' = out.stored
       ELSE response' = TextModeResponse(request) /\ store' = store
    /\ UNCHANGED <<env, proc, request, analysis, prev, calls, cache, allowed, drafts, resumes, items>>

NextSuggest ==
    \/ \E r \in ApplyRequests : SubmitApply(r)
    \/ ApplySuggestions

SpecSuggest == InitSuggest /\ [][NextSuggest]_vars

(***************************************************************************)
(* Concurrent analyze calls.  Every request is served by a view instance   *)
(* of its own (AIViewSet.__init__ builds a new EnhancedATSAnalyzerService),*)
(* so _llm and _llm_initialized belong to the call; the LangChain globals  *)
(* of the module belong to the process.  A thread can be preempted between *)
(* any two of the steps below.                                             *)
(***************************************************************************)
Threads == {"t1", "t2"}

ThreadSamples ==
    <<Req(NoData, DockerReactText, "Docker, React, AWS"),
      Req(NoData, PythonAwsText, "Python, React, AWS, Docker, Heroku")>>

ThreadDeployments ==
    {Stack(LLMAbsent, "rapidfuzz", NoTextstat, 0),
     Stack(LLMNotImportable, "rapidfuzz", NoTextstat, 0),
     Stack(LLMFails, "rapidfuzz", NoTextstat, 0),
     Stack(LLMMocked, "rapidfuzz", NoTextstat, 0)}

\* a call at the start of _extract_job_keywords_langchain
NewCall(k) ==
    [llm_initialized |-> FALSE, llm |-> "None", result |-> NoAnalysis, pc |-> "llm",
     sample |-> k]

InitThreads ==
    /\ env \in ThreadDeployments
    /\ proc = FreshProcess
    /\ pc = "idle"
    /\ request = NoRequest
    /\ analysis = NoAnalysis
    /\ response = NoResponse
    /\ prev = NoPrev
    /\ calls \in [Threads -> {NewCall(k) : k \in DOMAIN ThreadSamples}]
    /\ cache = <<>> /\ allowed = <<>> /\ drafts = <<>> /\ resumes = <<>>
    /\ items = <<>> /\ store = <<>>

ThreadFrame == <<env, pc, request, analysis, response, prev, cache, allowed, drafts, resumes, items, store>>

\* the property llm up to the test of _langchain_checked in _ensure_langchain
ReadChecked(t) ==
    /\ calls[t].pc = "llm"
    /\ calls' = [calls EXCEPT ![t].llm_initialized = TRUE,
                              ![t].pc = IF ~env.api_key THEN "decide"
                                        ELSE IF proc.langchain_checked THEN "read_available"
                                        ELSE "set_checked"]
    /\ UNCHANGED proc
    /\ UNCHANGED ThreadFrame

\* _langchain_checked = True, before the imports
SetChecked(t) ==
    /\ calls[t].pc = "set_checked"
    /\ proc' = [proc EXCEPT !.langchain_checked = TRUE]
    /\ calls' = [calls EXCEPT ![t].pc = "import"]
    /\ UNCHANGED ThreadFrame

\* the imports, _langchain_available set, and the client built when
\* _ensure_langchain returned True
Import(t) ==
    /\ calls[t].pc = "import"
    /\ proc' = [proc EXCEPT !.langchain_available = IF env.importable THEN "True" ELSE "False"]
    /\ calls' = [calls EXCEPT ![t].llm = IF env.importable THEN "client" ELSE "None",
                              ![t].pc = "decide"]
    /\ UNCHANGED ThreadFrame

\* return _langchain_available, as another thread has left it
ReadAvailable(t) ==
    /\ calls[t].pc = "read_available"
    /\ calls' = [calls EXCEPT ![t].llm = IF proc.langchain_available = "True"
                                         THEN "client" ELSE "None",
                              ![t].pc = "decide"]
    /\ UNCHANGED proc
    /\ UNCHANGED ThreadFrame

\* the process as the call sees it: its own instance, the module's globals
Seen(t) ==
    [llm_initialized |-> calls[t].llm_initialized, llm |-> calls[t].llm,
     langchain_checked |-> proc.langchain_checked,
     langchain_available |-> proc.langchain_available]

ThreadAnalysis(t, p) ==
    LET r == ThreadSamples[calls[t].sample]
    IN  analyze(r.resume_data, r.resume_text, r.job_desc, 0, p, env)

\* the test of line 169 and the rest of analyze
Finish(t) ==
    /\ calls[t].pc = "decide"
    /\ calls' = [calls EXCEPT ![t].result = ThreadAnalysis(t, Seen(t)),
                              ![t].pc = "done"]
    /\ UNCHANGED proc
    /\ UNCHANGED ThreadFrame

\* the thread serves its next request, with a new view instance
NextCall(t, k) ==
    /\ calls[t].pc = "done"
    /\ calls' = [calls EXCEPT ![t] = NewCall(k)]
    /\ UNCHANGED proc
    /\ UNCHANGED ThreadFrame

NextThreads ==
    \E t \in Threads :
        \/ ReadChecked(t)
        \/ SetChecked(t)
        \/ Import(t)
        \/ ReadAvailable(t)
        \/ Finish(t)
        \/ \E k \in DOMAIN ThreadSamples : NextCall(t, k)

SpecThreads == InitThreads /\ [][NextThreads]_vars

(***************************************************************************)
(* The guest limits: GuestAIRateLimiter.allow, called first by the         *)
(* handlers of parse_resume_file, analyze_resume and apply_suggestions     *)
(* (AIViewSet._guest_rate_limit), and GuestThrottle.allow_request, named   *)
(* for enhance_summary by the function decorator throttle_classes placed   *)
(* above @action.  The framework builds the throttles of a view set action *)
(* from the throttle_classes of the view instance (the class attribute or  *)
(* a keyword of @action); the attribute the function decorator sets is     *)
(* read by api_view only.  The framework is not part of the repository, so *)
(* a deployment either runs the decorated throttle or does not.            *)
(* The cache is one store shared by the workers; a key is dropped when its *)
(* timeout passes, and incr keeps the timeout.                             *)
(***************************************************************************)
Features == {"parse_resume_file", "analyze_resume", "apply_suggestions", "enhance_summary"}

\* GuestAIRateLimiter.LIMITS, and GuestThrottle.LIMIT for enhance_summary
Limit(feature) ==
    CASE feature = "parse_resume_file" -> 2
      [] feature = "analyze_resume" -> 5
      [] feature = "apply_suggestions" -> 5
      [] feature = "enhance_summary" -> 1

Guests == {"g1"}
Users == {"u1"}
Workers == {"w1", "w2"}

\* the requests one counter is let admit beyond its limit
MaxOverLimit == 2

\* _cache_key / get_cache_key: one key for a fingerprint and a feature
CacheKey(who, feature) == <<feature, who>>

GuestKeys == {CacheKey(who, feature) : who \in Guests, feature \in Features}

\* the handler runs a check of the guest limit for the feature
CheckRuns(feature) == feature # "enhance_summary" \/ env.decorated_throttle_runs

IdleWorker ==
    [who |-> "", pc |-> "idle", before |-> 0, feature |-> "", count |-> 0, outcome |-> "none"]

\* the counter as cache.get returns it, 0 for None (a stored counter is >= 1)
Stored(key) == IF key \in DOMAIN cache THEN cache[key] ELSE 0

InitLimit ==
    /\ env \in {[decorated_throttle_runs |-> b] : b \in BOOLEAN}
    /\ proc = FreshProcess
    /\ pc = "idle"
    /\ request = NoRequest
    /\ analysis = NoAnalysis
    /\ response = NoResponse
    /\ prev = NoPrev
    /\ calls = [w \in Workers |-> IdleWorker]
    /\ cache = <<>>
    /\ allowed = [key \in GuestKeys |-> 0]
    /\ drafts = <<>> /\ resumes = <<>> /\ items = <<>> /\ store = <<>>

LimitFrame == <<env, proc, pc, request, analysis, response, prev, drafts, resumes, items, store>>

Resting(w) == calls[w].pc \in {"idle", "done"}

Admit(key) == [allowed EXCEPT ![key] = @ + 1]

\* a request arrives at a worker: is_authenticated / get_ident, and for a
\* guest the cache key
Arrive(w, who, feature) ==
    /\ Resting(w)
    /\ who \in Guests => allowed[CacheKey(who, feature)] < Limit(feature) + MaxOverLimit
    /\ LET checked == who \in Guests /\ CheckRuns(feature)
       IN  /\ calls' = [calls EXCEPT ![w] =
                   [IdleWorker EXCEPT !.who = who, !.feature = feature,
                                      !.pc = IF checked THEN "get" ELSE "done",
                                      !.outcome = IF checked THEN "none" ELSE "allowed",
                                      !.before = IF who \in Guests
                                                 THEN Stored(CacheKey(who, feature)) ELSE 0]]
           /\ allowed' = IF who \in Guests /\ ~checked
                         THEN Admit(CacheKey(who, feature)) ELSE allowed
    /\ UNCHANGED cache
    /\ UNCHANGED LimitFrame

\* count = cache.get(cache_key), and the tests on it
Get(w) ==
    /\ calls[w].pc = "get"
    /\ LET count == Stored(CacheKey(calls[w].who, calls[w].feature))
       IN  calls' = [calls EXCEPT ![w].count = count,
                                  ![w].pc = IF count = 0 THEN "set"
                                            ELSE IF count >= Limit(calls[w].feature) THEN "done"
                                            ELSE "incr",
                                  ![w].outcome = IF count # 0 /\ count >= Limit(calls[w].feature)
                                                 THEN "rejected" ELSE "none"]
    /\ UNCHANGED <<cache, allowed>>
    /\ UNCHANGED LimitFrame

\* cache.set(cache_key, 1, timeout=WINDOW); return True
Set(w) ==
    /\ calls[w].pc = "set"
    /\ LET key == CacheKey(calls[w].who, calls[w].feature)
       IN  /\ cache' = [k \in DOMAIN cache \cup {key} |-> IF k = key THEN 1 ELSE cache[k]]
           /\ allowed' = Admit(key)
    /\ calls' = [calls EXCEPT ![w].pc = "done", ![w].outcome = "allowed"]
    /\ UNCHANGED LimitFrame

\* cache.incr(cache_key), or set to 1 when the key has gone; return True
Incr(w) ==
    /\ calls[w].pc = "incr"
    /\ LET key == CacheKey(calls[w].who, calls[w].feature)
       IN  /\ cache' = [k \in DOMAIN cache \cup {key} |->
                           IF k # key THEN cache[k]
                           ELSE IF key \in DOMAIN cache THEN cache[key] + 1 ELSE 1]
           /\ allowed' = Admit(key)
    /\ calls' = [calls EXCEPT ![w].pc = "done", ![w].outcome = "allowed"]
    /\ UNCHANGED LimitFrame

\* the window of a counter ends: the key times out (the requests answered
\* in that window are no longer kept)
Expire(key) ==
    /\ allowed[key] > 0
    /\ cache' = [k \in DOMAIN cache \ {key} |-> cache[k]]
    /\ allowed' = [allowed EXCEPT ![key] = 0]
    /\ calls' = [w \in Workers |->
                    IF calls[w].pc = "done" /\ CacheKey(calls[w].who, calls[w].feature) = key
                    THEN IdleWorker ELSE calls[w]]
    /\ UNCHANGED LimitFrame

\* the features requested concurrently: one checked by GuestAIRateLimiter,
\* and the one named for GuestThrottle (the counters of different features
\* are different keys)
ConcurrentFeatures == {"parse_resume_file", "enhance_summary"}

\* requests handled concurrently by the workers
NextLimit ==
    \/ \E w \in Workers, who \in Guests \cup Users, feature \in ConcurrentFeatures :
           Arrive(w, who, feature)
    \/ \E w \in Workers : Get(w) \/ Set(w) \/ Incr(w)
    \/ \E key \in GuestKeys : Expire(key)

SpecLimit == InitLimit /\ [][NextLimit]_vars

\* requests handled one after another
AllResting == \A w \in Workers : Resting(w)

NextLimitSeq ==
    \/ \E w \in Workers, who \in Guests \cup Users, feature \in Features :
           AllResting /\ Arrive(w, who, feature)
    \/ \E w \in Workers : Get(w) \/ Set(w) \/ Incr(w)
    \/ \E key \in GuestKeys : AllResting /\ Expire(key)

SpecLimitSeq == InitLimit /\ [][NextLimitSeq]_vars

(***************************************************************************)
(* Resume drafts: ResumeDraftViewSet.  The ResumeDraft table is a sequence *)
(* of rows, the primary key of a row its index; a deleted row keeps its    *)
(* index and is marked.  The resumes are the records of the resume store,  *)
(* the id of a record its index.  The store can fail: create can raise or  *)
(* answer without data, the copying of the sections can raise, the delete  *)
(* of the rollback can raise.                                              *)
(***************************************************************************)
GuestIds == {"g1"}
InvalidGuestId == "not-a-uuid"
DraftUsers == {"u1", "u2"}

MaxDraftRows == 2
MaxResumes == 2

NoDraftData == [skills |-> <<>>, personal |-> [fullName |-> ""]]
DraftDatas == {NoDraftData, [skills |-> <<"Python">>, personal |-> [fullName |-> "Ann"]]}

\* the data of a PATCH: the keys it sends
DraftPatches == {[k \in {"personal"} |-> [fullName |-> "Bob"]]}

\* merged_data of partial_update: the keys sent replace the stored ones
\* (personal holds one key, so merging it replaces it)
MergedData(existing_data, new_data) ==
    [k \in DOMAIN existing_data |->
        IF k \in DOMAIN new_data THEN new_data[k] ELSE existing_data[k]]

\* ResumeDraft.objects.get(guest_id=guest_id): the key of the row, 0 for
\* DoesNotExist
DraftPk(guest_id) ==
    LET S == {pk \in DOMAIN drafts : drafts[pk].exists /\ drafts[pk].guest_id = guest_id}
    IN  IF S = {} THEN 0 ELSE CHOOSE pk \in S : TRUE

\* a delete that leaves the row in the table
NotDeleted(row) == row

\* draft.delete(): the row after it
Deleted(row) == [row EXCEPT !.exists = FALSE]

Resting1(w) == calls[w].pc \in {"idle", "done"}

NoCall ==
    [pc |-> "idle", op |-> "none", status |-> 0, user |-> "", resume_id |-> 0,
     guest_id |-> "", pk |-> 0, resumes_before |-> 0, draft |-> <<>>]

\* a call answered at once
Answered(op, guest_id, user, status) ==
    [NoCall EXCEPT !.pc = "done", !.op = op, !.guest_id = guest_id, !.user = user,
                   !.status = status, !.pk = DraftPk(guest_id),
                   !.resumes_before = Len(resumes)]

\* the answer of a call that took steps: its locals are gone
Ended(call, status) == [call EXCEPT !.pc = "done", !.status = status, !.draft = <<>>]

DraftFrame == <<env, proc, pc, request, analysis, response, prev, cache, allowed, items, store>>

\* the requests handled one after another, by one worker
OneWorker == {"w1"}

InitDrafts ==
    /\ env = Stack(LLMAbsent, "rapidfuzz", NoTextstat, 0)
    /\ proc = FreshProcess
    /\ pc = "idle"
    /\ request = NoRequest
    /\ analysis = NoAnalysis
    /\ response = NoResponse
    /\ prev = NoPrev
    /\ calls = [w \in OneWorker |-> NoCall]
    /\ drafts = <<>>
    /\ resumes = <<>>
    /\ cache = <<>> /\ allowed = <<>> /\ items = <<>> /\ store = <<>>

\* ResumeDraftViewSet.create
CreateDraft(w, guest_id, data) ==
    /\ Resting1(w)
    /\ IF guest_id = InvalidGuestId
       THEN calls' = [calls EXCEPT ![w] = Answered("create", guest_id, "", 400)]
            /\ UNCHANGED drafts
       ELSE IF DraftPk(guest_id) # 0
       THEN calls' = [calls EXCEPT ![w] = Answered("create", guest_id, "", 200)]
            /\ UNCHANGED drafts
       ELSE /\ Len(drafts) < MaxDraftRows
            /\ drafts' = Append(drafts, [guest_id |-> guest_id, exists |-> TRUE,
                                         data |-> data, owner |-> ""])
            /\ calls' = [calls EXCEPT ![w] = Answered("create", guest_id, "", 201)]
    /\ UNCHANGED resumes
    /\ UNCHANGED DraftFrame

\* ResumeDraftViewSet.retrieve
RetrieveDraft(w, guest_id) ==
    /\ Resting1(w)
    /\ calls' = [calls EXCEPT ![w] =
           Answered("retrieve", guest_id, "",
                    IF guest_id = InvalidGuestId THEN 400
                    ELSE IF DraftPk(guest_id) = 0 THEN 404 ELSE 200)]
    /\ UNCHANGED <<drafts, resumes>>
    /\ UNCHANGED DraftFrame

\* ResumeDraftViewSet.partial_update
PartialUpdate(w, guest_id, new_data) ==
    /\ Resting1(w)
    /\ LET pk == DraftPk(guest_id)
       IN  IF guest_id = InvalidGuestId
           THEN calls' = [calls EXCEPT ![w] = Answered("partial_update", guest_id, "", 400)]
                /\ UNCHANGED drafts
           ELSE IF pk = 0
           THEN calls' = [calls EXCEPT ![w] = Answered("partial_update", guest_id, "", 404)]
                /\ UNCHANGED drafts
           ELSE /\ drafts' = [drafts EXCEPT ![pk].data = MergedData(@, new_data)]
                /\ calls' = [calls EXCEPT ![w] = Answered("partial_update", guest_id, "", 200)]
    /\ UNCHANGED resumes
    /\ UNCHANGED DraftFrame

\* convert up to the test of draft.owner
ConvertBegin(w, guest_id, user) ==
    /\ Resting1(w)
    /\ LET pk == DraftPk(guest_id)
           status == IF guest_id = InvalidGuestId THEN 400
                     ELSE IF user = "" THEN 401
                     ELSE IF pk = 0 THEN 404
                     ELSE IF drafts[pk].owner # "" THEN 400
                     ELSE 0
       IN  calls' = [calls EXCEPT ![w] =
               IF status # 0 THEN Answered("convert", guest_id, user, status)
               ELSE [Answered("convert", guest_id, user, 0) EXCEPT
                        !.pc = "assign", !.draft = drafts[pk]]]
    /\ UNCHANGED <<drafts, resumes>>
    /\ UNCHANGED DraftFrame

\* draft.save(): the row of the instance written whole, inserted again when
\* it has been deleted
Saved(pk, draft) == [drafts EXCEPT ![pk] = [draft EXCEPT !.exists = TRUE]]

\* draft.owner = owner_uuid; draft.save()
AssignOwner(w) ==
    /\ calls[w].pc = "assign"
    /\ LET draft == [calls[w].draft EXCEPT !.owner = calls[w].user]
       IN  /\ drafts' = Saved(calls[w].pk, draft)
           /\ calls' = [calls EXCEPT ![w].draft = draft, ![w].pc = "create"]
    /\ UNCHANGED resumes
    /\ UNCHANGED DraftFrame

\* service.create(resume_data) and the test of its id
CreateResume(w, outcome) ==
    /\ calls[w].pc = "create"
    /\ CASE outcome = "created" ->
              /\ Len(resumes) < MaxResumes
              /\ resumes' = Append(resumes,
                     [skills |-> <<>>,
                      title |-> IF calls[w].draft.data.personal.fullName # ""
                                THEN calls[w].draft.data.personal.fullName ELSE "My Resume",
                      draft |-> calls[w].pk, user_id |-> calls[w].user, state |-> "created"])
              /\ calls' = [calls EXCEPT ![w].resume_id = Len(resumes) + 1, ![w].pc = "copy"]
              /\ UNCHANGED drafts
         [] outcome = "no_id" ->
              LET draft == [calls[w].draft EXCEPT !.owner = ""]
              IN  /\ drafts' = Saved(calls[w].pk, draft)
                  /\ calls' = [calls EXCEPT ![w] = Ended(@, 500)]
                  /\ UNCHANGED resumes
         [] outcome = "raises" ->
              /\ calls' = [calls EXCEPT ![w] = Ended(@, 500)]
              /\ UNCHANGED <<drafts, resumes>>
    /\ UNCHANGED DraftFrame

\* the sections of the draft copied to the resume, or the rollback of the
\* except branch when a step raises
CopySections(w, outcome, rollback) ==
    /\ calls[w].pc = "copy"
    /\ IF outcome = "copied"
       THEN /\ resumes' = [resumes EXCEPT ![calls[w].resume_id].skills = calls[w].draft.data.skills,
                                          ![calls[w].resume_id].state = "filled"]
            /\ calls' = [calls EXCEPT ![w].pc = "delete"]
            /\ UNCHANGED drafts
       ELSE LET draft == [calls[w].draft EXCEPT !.owner = ""]
            IN  /\ drafts' = Saved(calls[w].pk, draft)
                /\ resumes' = IF rollback = "deleted"
                              THEN [resumes EXCEPT ![calls[w].resume_id].state = "deleted"]
                              ELSE resumes
                /\ calls' = [calls EXCEPT ![w] = Ended(@, 500)]
    /\ UNCHANGED DraftFrame

\* draft.delete() and the answer
DeleteDraft(w) ==
    /\ calls[w].pc = "delete"
    /\ drafts' = [drafts EXCEPT ![calls[w].pk] = Deleted(@)]
    /\ resumes' = [resumes EXCEPT ![calls[w].resume_id].state = "converted"]
    /\ calls' = [calls EXCEPT ![w] = Ended(@, 200)]
    /\ UNCHANGED DraftFrame

DraftSteps(w) ==
    \/ \E guest_id \in GuestIds \cup {InvalidGuestId} :
           \/ \E data \in DraftDatas : CreateDraft(w, guest_id, data)
           \/ RetrieveDraft(w, guest_id)
           \/ \E new_data \in DraftPatches : PartialUpdate(w, guest_id, new_data)
           \/ \E user \in DraftUsers \cup {""} : ConvertBegin(w, guest_id, user)
    \/ AssignOwner(w)
    \/ \E outcome \in {"created", "no_id", "raises"} : CreateResume(w, outcome)
    \/ \E outcome \in {"copied", "raises"}, rollback \in {"deleted", "kept"} :
           CopySections(w, outcome, rollback)
    \/ DeleteDraft(w)

NextDrafts == \E w \in OneWorker : DraftSteps(w)

SpecDrafts == InitDrafts /\ [][NextDrafts]_vars

(***************************************************************************)
(* Two convert requests for one draft, handled by two workers at the same  *)
(* time: the steps of the two handlers interleave at the calls to the      *)
(* database and to the resume service.                                     *)
(***************************************************************************)
TwoWorkers == {"w1", "w2"}

\* the draft of a guest is there, no resume yet
InitConvert ==
    /\ env = Stack(LLMAbsent, "rapidfuzz", NoTextstat, 0)
    /\ proc = FreshProcess
    /\ pc = "idle"
    /\ request = NoRequest
    /\ analysis = NoAnalysis
    /\ response = NoResponse
    /\ prev = NoPrev
    /\ calls = [w \in TwoWorkers |-> NoCall]
    /\ drafts \in {<<[guest_id |-> guest_id, exists |-> TRUE, data |-> data, owner |-> ""]>> :
                      guest_id \in GuestIds, data \in DraftDatas}
    /\ resumes = <<>>
    /\ cache = <<>> /\ allowed = <<>> /\ items = <<>> /\ store = <<>>

ConvertSteps(w) ==
    \/ \E guest_id \in GuestIds, user \in DraftUsers : ConvertBegin(w, guest_id, user)
    \/ AssignOwner(w)
    \/ \E outcome \in {"created", "no_id", "raises"} : CreateResume(w, outcome)
    \/ \E outcome \in {"copied", "raises"}, rollback \in {"deleted", "kept"} :
           CopySections(w, outcome, rollback)
    \/ DeleteDraft(w)

NextConvert == \E w \in TwoWorkers : ConvertSteps(w)

SpecConvert == InitConvert /\ [][NextConvert]_vars

(***************************************************************************)
(* Reordering the entries of a resume section: the reorder action of the   *)
(* six section view sets.  ReorderSerializer declares one field, items (a  *)
(* list of dicts); validated_data holds the declared fields only.          *)
(***************************************************************************)
Sections == {"experiences", "educations", "projects", "certifications", "languages", "interests"}

\* the view sets that read validated_data['item_ids']; the others read
\* validated_data.get('item_ids', [])
SubscriptSections == {"experiences", "educations"}

ItemIds == {"a", "b", "c"}
ReorderOwner == "u1"
ReorderResume == "r1"

\* the body of a request: the keys it sends, each a list of entry ids (an
\* entry of items is a dict with the id)
ReorderBodies ==
    {[k \in {"items"} |-> <<"c", "a", "b">>],
     [k \in {"items"} |-> <<"b", "a">>],
     [k \in {"item_ids"} |-> <<"c", "a", "b">>],
     [k \in {"items", "item_ids"} |-> <<"b", "c", "a">>]}

ReorderRequests ==
    [op : {"reorder"}, section : Sections, user : {"", ReorderOwner, "u2"},
     resume_id : {ReorderResume, "gone"}, data : ReorderBodies]

\* serializer.validated_data of ReorderSerializer
ReorderValidated(data) == [k \in DOMAIN data \cap {"items"} |-> data[k]]

\* for index, item_id in enumerate(item_ids): service.update(item_id,
\* {'order': index})
Reordered(table, item_ids) ==
    [i \in DOMAIN table |->
        LET at == {k \in DOMAIN item_ids : item_ids[k] = i}
        IN  IF at = {} THEN table[i]
            ELSE (CHOOSE k \in at : \A m \in at : m <= k) - 1]

\* the list the view set takes from validated_data, or the KeyError of the
\* subscript
ItemIdsRead(section, validated_data) ==
    IF "item_ids" \in DOMAIN validated_data
    THEN [raised |-> FALSE, value |-> validated_data["item_ids"]]
    ELSE IF section \in SubscriptSections THEN Raised("KeyError")
    ELSE [raised |-> FALSE, value |-> <<>>]

InitReorder ==
    /\ env = Stack(LLMAbsent, "rapidfuzz", NoTextstat, 0)
    /\ proc = FreshProcess
    /\ pc = "idle"
    /\ request = NoRequest
    /\ analysis = NoAnalysis
    /\ response = NoResponse
    /\ prev = NoPrev
    /\ calls = <<>> /\ cache = <<>> /\ allowed = <<>> /\ drafts = <<>>
    /\ resumes = <<>> /\ store = <<>>
    /\ items \in {[s \in Sections |-> [i \in ItemIds |-> o[i]]] :
                    o \in {[c |-> 2, b |-> 1, a |-> 0], [c |-> 0, b |-> 0, a |-> 0]}}

SubmitReorder(r) ==
    /\ pc \in {"idle", "returned"}
    /\ request' = r
    /\ response' = NoResponse
    /\ pc' = "called"
    /\ UNCHANGED <<env, proc, analysis, prev, calls, cache, allowed, drafts, resumes, items, store>>

\* the reorder action of a section view set
Reorder ==
    /\ pc = "called"
    /\ request.op = "reorder"
    /\ pc' = "returned"
    /\ IF request.user = ""
       THEN response' = [status |-> 401] /\ items' = items
       ELSE IF request.resume_id # ReorderResume
       THEN response' = [status |-> 404] /\ items' = items
       ELSE IF request.user # ReorderOwner
       THEN response' = [status |-> 403] /\ items' = items
       ELSE IF "items" \notin DOMAIN request.data
       THEN response' = [status |-> 400] /\ items' = items
       ELSE LET item_ids == ItemIdsRead(request.section, ReorderValidated(request.data))
            IN  IF item_ids.raised
                THEN response' = [error |-> item_ids.error, status |-> 500] /\ items' = items
                ELSE /\ response' = [status |-> 200]
                     /\ items' = [items EXCEPT ![request.section] =
                                      Reordered(@, item_ids.value)]
    /\ UNCHANGED <<env, proc, request, analysis, prev, calls, cache, allowed, drafts, resumes, store>>

NextReorder ==
    \/ \E r \in ReorderRequests : SubmitReorder(r)
    \/ Reorder

SpecReorder == InitReorder /\ [][NextReorder]_vars

(***************************************************************************)
(* execute_with_retry of config/services/base.py, through which every      *)
(* store operation runs its query.  The frame of a call holds its          *)
(* arguments and locals; log is the list of what query.execute() did, one  *)
(* entry per invocation.                                                   *)
(***************************************************************************)
\* max_retries: int = 3, the value every caller runs with; smaller positive
\* values are run as well
DefaultMaxRetries == 3

\* query.execute() returned a response
QueryOk == "ok"

\* the messages of the exceptions query.execute() raises
QueryErrors ==
    {"[WinError 10035] would block", "Socket closed", "Connection reset",
     "connection refused", "timed out", "duplicate key"}

\* every error is taken for one to retry after
RetryableAlways(e) == TRUE

\* 'winerror 10035' in error_str or 'socket' in error_str or 'connection' in
\* error_str, for error_str = str(e).lower()
Retryable(e) ==
    LET error_str == LowerStr(e)
    IN  \/ Contains(error_str, "winerror 10035")
        \/ Contains(error_str, "socket")
        \/ Contains(error_str, "connection")

NoRetryCall ==
    [pc |-> "idle", outcome |-> "none", value |-> "", max_retries |-> 0,
     attempt |-> 0, last_exception |-> "None", log |-> <<>>, slept |-> 0]

RetryFrame ==
    <<env, proc, pc, request, analysis, response, prev, cache, allowed, drafts,
      resumes, items, store>>

InitRetry ==
    /\ env = Stack(LLMAbsent, "rapidfuzz", NoTextstat, 0)
    /\ proc = FreshProcess
    /\ pc = "idle"
    /\ request = NoRequest
    /\ analysis = NoAnalysis
    /\ response = NoResponse
    /\ prev = NoPrev
    /\ calls = [w \in OneWorker |-> NoRetryCall]
    /\ cache = <<>> /\ allowed = <<>> /\ drafts = <<>>
    /\ resumes = <<>> /\ items = <<>> /\ store = <<>>

\* execute_with_retry(query, max_retries): last_exception = None and the
\* loop entered with attempt 0
CallWithRetry(w, max_retries) ==
    /\ calls[w].pc \in {"idle", "done"}
    /\ calls' = [calls EXCEPT ![w] =
                    [NoRetryCall EXCEPT !.pc = "loop", !.max_retries = max_retries]]
    /\ UNCHANGED RetryFrame

\* one pass of the loop body: query.execute() returns or raises.  The sleep
\* before the next pass is delay * (attempt + 1), counted in units of delay.
\* With max_retries >= 1 the loop is always left from inside its body.
ExecuteQuery(w, result) ==
    /\ calls[w].pc = "loop"
    /\ calls[w].attempt < calls[w].max_retries
    /\ LET c == [calls[w] EXCEPT !.log = Append(@, result)]
       IN  calls' = [calls EXCEPT ![w] =
               IF result = QueryOk
               THEN [c EXCEPT !.pc = "done", !.outcome = "returned", !.value = result]
               ELSE IF Retryable(result) /\ c.attempt < c.max_retries - 1
               THEN [c EXCEPT !.last_exception = result,
                              !.slept = @ + (c.attempt + 1),
                              !.attempt = @ + 1]
               ELSE [c EXCEPT !.last_exception = result, !.pc = "done",
                              !.outcome = "raised", !.value = result]]
    /\ UNCHANGED RetryFrame

RetryStep(w) == \E result \in QueryErrors \cup {QueryOk} : ExecuteQuery(w, result)

NextRetry ==
    \E w \in OneWorker :
        \/ \E max_retries \in 1..DefaultMaxRetries : CallWithRetry(w, max_retries)
        \/ RetryStep(w)

\* the loop body runs on: no pass waits for anything but its sleep
SpecRetry == InitRetry /\ [][NextRetry]_vars /\ WF_vars(RetryStep("w1"))

(***************************************************************************)
(* Properties.                                                             *)
(***************************************************************************)
\* the enhanced analyzer has returned a result for the request
EnhancedReturned == pc = "returned" /\ request.op = "analyze" /\ ~analysis.raised

\* the matcher has returned a result for the request
MatchReturned == pc = "returned" /\ request.op = "match"

\* C1: whenever analyze returns (the resume text is then not empty), the
\* suggestions list has at least 3 and at most 5 entries.
C1_SuggestionsBetween3And5 ==
    EnhancedReturned => Len(analysis.result.suggestions) \in MinSuggestions..MaxSuggestions

\* every sentence of the text that is not blank holds a numeric metric
EverySentenceHasMetric(text) ==
    LET sentences == SelectSeq(SplitSentences(text), LAMBDA t : Strip(t) # "")
    IN  /\ sentences # <<>>
        /\ \A k \in DOMAIN sentences : HasMetric(sentences[k])

\* the score the test of the quantifiable score asks for
HighQuantifiable == 60

\* C2: analyze on a plain resume text (no resume data, no job description)
\* whose every sentence holds a numeric metric returns a quantifiable
\* achievements score of 60 or more.
C2_MetricSentencesScoreHigh ==
    ( /\ EnhancedReturned
      /\ ~Truthy(request.resume_data)
      /\ request.job_desc = ""
      /\ EverySentenceHasMetric(request.resume_text) )
    => analysis.result.quantifiable_achievements >= HighQuantifiable

Percent == 0..100

\* C3: every percentage score returned lies within 0..100: the ats,
\* readability, bullet strength, quantifiable, formatting and (when there is
\* a job description) keyword scores of analyze, and the match score and
\* every category match of the matcher.
C3_ScoresWithinRange ==
    /\ EnhancedReturned =>
          LET r == analysis.result
          IN  /\ r.ats_score \in Percent
              /\ r.readability_score \in Percent
              /\ r.bullet_strength \in Percent
              /\ r.quantifiable_achievements \in Percent
              /\ r.formatting_score \in Percent
              /\ request.job_desc # "" => r.keyword_score \in Percent
    /\ MatchReturned =>
          /\ response.body.match_score \in Percent
          /\ \A c \in DOMAIN response.body.category_matches :
                LET v == response.body.category_matches[c]
                IN  0 <= v.num /\ v.num <= 100 * v.den

\* textstat reported a reading ease above 100 and the score came out as 100
C3_Witness ==
    /\ EnhancedReturned
    /\ env.textstat # NoTextstat
    /\ request.flesch > 100
    /\ analysis.result.readability_score = 100
    /\ request.job_desc # ""

\* C4: the missing and the matched keywords are disjoint, in the matcher's
\* result and between analyze's missing_keywords and the matched set its
\* score is computed from.
C4_MissingMatchedDisjoint ==
    /\ EnhancedReturned =>
          Range(analysis.result.missing_keywords) \cap analysis.matched_keywords = {}
    /\ MatchReturned =>
          Range(response.body.missing_keywords) \cap Range(response.body.matched_keywords) = {}

\* a job keyword was matched by fuzzy comparison only, another is missing
C4_Witness ==
    /\ EnhancedReturned
    /\ \E k \in analysis.matched_keywords : k \notin analysis.resume_keywords
    /\ analysis.result.missing_keywords # <<>>

\* C5: a call of analyze that repeats the call before it, with the same
\* resume data, resume text and job description, returns the same outcome:
\* the same result dict, with the same missing keywords in the same order and
\* the same suggestion texts.
C5_RepeatedCallSameResult ==
    (pc = "returned" /\ prev.kind = "same") =>
        /\ analysis.raised = prev.analysis.raised
        /\ ~analysis.raised => analysis.result = prev.analysis.result

\* C6: when a keyword of the job description is appended to the resume text,
\* the missing keywords do not get more and the ats score does not get lower.
C6_AppendKeywordMonotone ==
    (pc = "returned" /\ prev.kind = "keyword" /\ ~analysis.raised) =>
        /\ Len(analysis.result.missing_keywords)
              <= Len(prev.analysis.result.missing_keywords)
        /\ analysis.result.ats_score >= prev.analysis.result.ats_score

\* a missing keyword was appended: one keyword less is missing, the score rose
C6_Witness ==
    /\ pc = "returned"
    /\ prev.kind = "keyword"
    /\ ~analysis.raised
    /\ prev.keyword \in Range(prev.analysis.result.missing_keywords)
    /\ Len(analysis.result.missing_keywords)
          < Len(prev.analysis.result.missing_keywords)
    /\ analysis.result.ats_score > prev.analysis.result.ats_score

\* the job keywords with an exact or fuzzy match among the resume keywords
JobKeywordsWithMatch ==
    {k \in analysis.job_keywords : HasMatch(k, analysis.resume_keywords, env.lib)}

FieldTexts(d) ==
    {d.summary, d.optimized_summary}
    \cup UNION {{e.position, e.company, e.description} : e \in Range(d.experiences)}
    \cup UNION {{e.title, e.description, e.technologies} : e \in Range(d.projects)}
    \cup UNION {{e.name, e.issuer} : e \in Range(d.certifications)}
    \cup UNION {{e.degree, e.field_of_study, e.institution} : e \in Range(d.educations)}
    \cup {e.name : e \in Range(d.skills)}

\* the keyword is a word of the text, whatever its case
OccursAsWord(k, t) == k \in Range(WordRuns(LowerStr(t)))

\* C8: a job keyword that occurs as a word in a text-bearing field of the
\* resume data is never in missing_keywords.
C8_FieldKeywordNeverMissing ==
    (EnhancedReturned /\ Truthy(request.resume_data)) =>
        \A k \in analysis.job_keywords :
            (\E t \in FieldTexts(request.resume_data) : OccursAsWord(k, t))
                => k \notin Range(analysis.result.missing_keywords)

\* C9 as stated: a job keyword is in missing_keywords exactly if no resume
\* keyword matches it exactly or fuzzily.
C9_MissingIffUnmatched ==
    EnhancedReturned =>
        \A k \in analysis.job_keywords :
            k \in Range(analysis.result.missing_keywords)
                <=> ~HasMatch(k, analysis.resume_keywords, env.lib)

\* C9: missing_keywords holds unmatched job keywords only, each once, and all
\* of them up to the cap of 15; every job keyword with a match is absent from
\* it and counted as matched.
C9_MissingAreUnmatchedUpToCap ==
    EnhancedReturned =>
        LET unmatched == analysis.job_keywords \ JobKeywordsWithMatch
            missing == analysis.result.missing_keywords
        IN  /\ Range(missing) \subseteq unmatched
            /\ Cardinality(Range(missing)) = Len(missing)
            /\ Len(missing) = Min(MissingCap, Cardinality(unmatched))
            /\ analysis.matched_keywords = JobKeywordsWithMatch

\* more than 15 job keywords have no match and 15 are reported
C9_Witness ==
    /\ EnhancedReturned
    /\ Cardinality(analysis.job_keywords \ JobKeywordsWithMatch) > MissingCap
    /\ Len(analysis.result.missing_keywords) = MissingCap

\* the handler has answered the analysis request
AnalysisAnswered == pc = "returned" /\ request.op = "analyze"

LlmFallsBack ==
    \/ ~env.api_key
    \/ ~env.importable
    \/ env.reply.kind \in {"raise", "notlist"}

\* the LLM answered with text that is not JSON
LlmAnswersInvalidJson == env.api_key /\ env.importable /\ env.reply.kind = "invalid"

\* C11: job keyword extraction never fails the analysis: with a resume text
\* the call returns a result, and for a job description the keyword set is
\* the regex tokenizer's when the LLM is not configured, LangChain is not
\* importable, the call raises or the reply is JSON that is no list, and
\* the kept quoted substrings of the reply when the reply is not JSON
C11_JobKeywordsFallBack ==
    ( /\ AnalysisAnswered
      /\ EffectiveText(request.resume_data, request.resume_text) # "" ) =>
        /\ ~analysis.raised
        /\ request.job_desc # "" =>
            /\ LlmFallsBack =>
                  analysis.job_keywords = extract_keywords_regex(request.job_desc)
            /\ LlmAnswersInvalidJson =>
                  analysis.job_keywords =
                      {Strip(LowerStr(q)) :
                          q \in {x \in Range(FindQuoted(env.reply.content)) :
                                    Len(x) >= MinKeywordLen}}

C11_Witness ==
    /\ EnhancedReturned
    /\ request.job_desc = "Python, React, AWS, Docker, Heroku"
    /\ LlmAnswersInvalidJson
    /\ analysis.job_keywords = {"docker", "aws", "heroku"}

\* the request names no stored resume with text and carries no resume_text
NoTextSupplied ==
    /\ request.resume_text = ""
    /\ Truthy(request.resume_data) => extract_text_from_data(request.resume_data) = ""

\* C13: a request that supplies no resume text is a validation failure: the
\* enhanced analyzer raises and the endpoint answers with an error status,
\* not with 200 and default scores
C13_NoTextIsAnError ==
    ( /\ pc = "returned"
      /\ request.op \in {"analyze", "analyze_invalid"}
      /\ NoTextSupplied ) =>
        /\ request.op = "analyze" => analysis.raised
        /\ response.status >= 400

\* C12: an entry of a resume section that is no well-formed record does not
\* abort analyze: the call returns a result
C12_MalformedEntrySkipped ==
    ( /\ pc = "returned"
      /\ request.op = "direct"
      /\ HasMalformedEntry(request.resume_data) ) =>
        ~analysis.raised

\* analyze, called directly, has returned a result
DirectReturned == pc = "returned" /\ request.op = "direct" /\ ~analysis.raised

\* the job keywords no resume keyword matches
Unmatched == analysis.job_keywords \ JobKeywordsWithMatch

\* C21: missing_keywords has at most 15 entries in order of non-increasing
\* length, and when more than 15 job keywords are unmatched no keyword left
\* out is longer than one that was kept.
C21_LongestMissingKept ==
    DirectReturned =>
        LET missing == analysis.result.missing_keywords
        IN  /\ Len(missing) <= MissingCap
            /\ \A i, j \in DOMAIN missing : i < j => Len(missing[i]) >= Len(missing[j])
            /\ Cardinality(Unmatched) > MissingCap =>
                    /\ Len(missing) = MissingCap
                    /\ \A u \in Unmatched \ Range(missing) :
                           \A m \in Range(missing) : Len(u) <= Len(m)

\* more than 15 job keywords of differing lengths are unmatched, and one of
\* the shortest is left out
C21_Witness ==
    /\ DirectReturned
    /\ Cardinality(Unmatched) > MissingCap
    /\ \E u, v \in Unmatched : Len(u) < Len(v)
    /\ Len(analysis.result.missing_keywords) = MissingCap
    /\ \E u \in Unmatched : u \notin Range(analysis.result.missing_keywords)

\* the bullets of the experience and project descriptions of structured data
DescriptionBullets(d) == AllBullets("", d)

\* the percentage of the bullets that hold a number, every bullet of the
\* list counted once; 30 for no bullets
ShareWithMetric(bullets) ==
    IF bullets = <<>> THEN NoBulletsQuantifiable
    ELSE PctInt(Len(SelectSeq(bullets, HasMetric)), Len(bullets))

\* C22: quantifiable_achievements is the truncated percentage of the resume's
\* bullets that hold a number, each bullet counted once: the bullets of the
\* text for a resume given as text, and for structured data the bullets of
\* its descriptions (or, read the other way, those of the text made of it);
\* 30 when there is no bullet.
C22_EachBulletCountedOnce ==
    DirectReturned =>
        LET d == request.resume_data
            score == analysis.result.quantifiable_achievements
        IN  IF Truthy(d)
            THEN score \in {ShareWithMetric(DescriptionBullets(d)),
                            ShareWithMetric(FindBullets(extract_text_from_data(d)))}
            ELSE score = ShareWithMetric(FindBullets(request.resume_text))

\* the place in the rule list of the rule that makes the suggestion, 0 for a
\* suggestion no rule makes
RuleOf(suggestion) ==
    IF suggestion.type = "keyword" /\ suggestion.priority = "high" THEN 1
    ELSE IF suggestion = AchievementSuggestion THEN 2
    ELSE IF suggestion = BulletSuggestion THEN 3
    ELSE IF suggestion = ProjectsSuggestion THEN 4
    ELSE IF suggestion = CertificationsSuggestion THEN 5
    ELSE IF suggestion = GeneralSuggestion THEN 6
    ELSE IF suggestion = PaddingSuggestion THEN 7
    ELSE 0

\* the rules whose suggestions are in the result
RulesIn(suggestions) == {RuleOf(suggestions[i]) : i \in DOMAIN suggestions}

\* C23: the suggestions come in the order of the rules (keyword, achievement,
\* bullet verbs, projects, certifications, general, padding), at most one of
\* each; the keyword suggestion is there exactly when missing_keywords is
\* not empty, the achievement suggestion exactly when the quantifiable score
\* is below 60.
C23_SuggestionsInRuleOrder ==
    EnhancedReturned =>
        LET suggestions == analysis.result.suggestions
        IN  /\ \A i \in DOMAIN suggestions : RuleOf(suggestions[i]) \in 1..7
            /\ \A i, j \in DOMAIN suggestions :
                   i < j => RuleOf(suggestions[i]) < RuleOf(suggestions[j])
            /\ 1 \in RulesIn(suggestions) <=> analysis.result.missing_keywords # <<>>
            /\ 2 \in RulesIn(suggestions)
                   <=> analysis.result.quantifiable_achievements < 60

\* a result with missing keywords and enough bullets with numbers: the
\* keyword suggestion comes first and the padding last, with no achievement
\* suggestion
C23_Witness ==
    /\ EnhancedReturned
    /\ analysis.result.missing_keywords # <<>>
    /\ analysis.result.quantifiable_achievements >= 60
    /\ RuleOf(analysis.result.suggestions[1]) = 1
    /\ 2 \notin RulesIn(analysis.result.suggestions)
    /\ RulesIn(analysis.result.suggestions) \cap {3, 6} # {}
    /\ 7 \in RulesIn(analysis.result.suggestions)

\* C24: every keyword of the job and resume keyword sets is lowercase and at
\* least 3 characters long, whichever path produced it.
C24_KeywordsLowercaseMinLen ==
    DirectReturned =>
        \A k \in analysis.job_keywords \cup analysis.resume_keywords :
            /\ k = LowerStr(k)
            /\ Len(k) >= MinKeywordLen

\* how often the keyword is written in the job description
OccurrencesInJob(keyword) ==
    Count(FindAllAlpha(LowerStr(request.job_desc), 1), LowerStr(keyword))

\* C25: the missing_keywords that match returns are in the order of
\* non-increasing number of occurrences in the job description, and at most
\* 15.
C25_MissingByFrequency ==
    MatchReturned =>
        LET missing == response.body.missing_keywords
        IN  /\ Len(missing) <= MatcherCap
            /\ \A i, j \in DOMAIN missing :
                   i < j => OccurrencesInJob(missing[i]) >= OccurrencesInJob(missing[j])

\* an apply-suggestions request has been answered
SuggestReturned == pc = "returned" /\ request.op = "apply_suggestions"

\* the request can be served (a text or the owner's stored resume, and
\* suggestions) and the deployment has no OpenAI key
ServableWithoutLLM ==
    /\ SuggestReturned
    /\ ~env.api_key
    /\ request.suggestions # <<>>
    /\ \/ request.user = StoredOwner /\ request.resume_id = StoredId
       \/ (request.user = "" \/ request.resume_id = "") /\ Strip(request.resume_text) # ""

\* C14: when the LLM is unavailable, applying suggestions does not fail:
\* with a resume_id of the authenticated owner and in text-only mode alike,
\* the request is answered 200 by the rule-based transform.
C14_NoLLMStillSucceeds == ServableWithoutLLM => response.status = 200

\* C14, the text-only half, which the code keeps: without a key the text is
\* transformed by rule and answered 200
TextModeFallsBack ==
    (ServableWithoutLLM /\ (request.user = "" \/ request.resume_id = ""))
        => response.status = 200 /\ response.via = "rule_based"

ThreadDone(t) == calls[t].pc = "done"

\* C16: analysis calls share no mutable state: under any interleaving of
\* concurrent analyze calls, the first ones that start the lazy LangChain
\* initialisation included, each call returns what it would return if it
\* ran alone.
C16_SameAsAlone ==
    \A t \in Threads : ThreadDone(t) => calls[t].result = ThreadAnalysis(t, FreshProcess)

\* a worker has answered a guest's request
GuestAnswered(w) == calls[w].pc = "done" /\ calls[w].who \in Guests

\* the counter of the request a worker has answered
AnsweredKey(w) == CacheKey(calls[w].who, calls[w].feature)

\* C17: for a guest and a feature with limit L, of requests handled one
\* after another within one window exactly the first L are allowed, every
\* later one is rejected without changing the counter, and requests of
\* authenticated users are always allowed and never counted.
C17_FirstLAllowed ==
    /\ \A key \in GuestKeys : allowed[key] <= Limit(key[1])
    /\ \A w \in Workers :
           /\ (GuestAnswered(w) /\ calls[w].outcome = "rejected")
                  => /\ allowed[AnsweredKey(w)] = Limit(calls[w].feature)
                     /\ Stored(AnsweredKey(w)) = calls[w].before
           /\ (GuestAnswered(w) /\ calls[w].outcome = "allowed")
                  => calls[w].before < Limit(calls[w].feature)
           /\ (calls[w].pc = "done" /\ calls[w].who \in Users)
                  => calls[w].outcome = "allowed"
    /\ DOMAIN cache \subseteq GuestKeys

\* C17 for the counters that are checked: the three features of
\* GuestAIRateLimiter, and enhance_summary where the decorated throttle runs
CheckedCountersExact ==
    /\ \A key \in GuestKeys :
           CheckRuns(key[1]) => allowed[key] <= Limit(key[1]) /\ allowed[key] = Stored(key)
    /\ \A w \in Workers :
           (GuestAnswered(w) /\ CheckRuns(calls[w].feature) /\ calls[w].outcome = "rejected")
               => /\ allowed[AnsweredKey(w)] = Limit(calls[w].feature)
                  /\ Stored(AnsweredKey(w)) = calls[w].before
    /\ DOMAIN cache \subseteq GuestKeys

\* C18: the guest limit holds when one guest's requests are handled
\* concurrently: under any interleaving of the get, set and incr steps no
\* more than L requests of one fingerprint for one feature are allowed
\* within a window.
C18_AtMostLConcurrently ==
    \A key \in GuestKeys : CheckRuns(key[1]) => allowed[key] <= Limit(key[1])

\* the draft call of the worker has been answered
DraftAnswered(op) == calls["w1"].pc = "done" /\ calls["w1"].op = op

\* what holds of the tables after every step
DraftsConsistent ==
    LET c == calls["w1"]
    IN  /\ \A pk \in DOMAIN drafts :
               Cardinality({r \in DOMAIN resumes :
                   resumes[r].draft = pk /\ resumes[r].state = "converted"}) <= 1
        /\ \A r \in DOMAIN resumes :
               resumes[r].state = "converted" => ~drafts[resumes[r].draft].exists
        /\ (DraftAnswered("convert") /\ c.status = 200)
               => /\ Len(resumes) = c.resumes_before + 1
                  /\ resumes[c.resume_id].user_id = c.user
                  /\ resumes[c.resume_id].draft = c.pk
                  /\ resumes[c.resume_id].state = "converted"
                  /\ ~drafts[c.pk].exists
                  /\ DraftPk(c.guest_id) = 0

\* what holds of a request answered at once: d is the answer
DraftsAnsweredRight ==
    LET d == calls'["w1"]
        pk == DraftPk(d.guest_id)
        at_once == Resting1("w1") /\ d.pc = "done" /\ d.guest_id \in GuestIds
    IN  /\ (at_once /\ d.op \in {"retrieve", "partial_update", "convert"} /\ pk = 0
                /\ (d.op = "convert" => d.user # ""))
               => d.status = 404 /\ UNCHANGED <<drafts, resumes>>
        /\ (at_once /\ d.op = "convert" /\ d.user # "" /\ pk # 0 /\ drafts[pk].owner # "")
               => d.status = 400 /\ UNCHANGED <<drafts, resumes>>
        /\ (at_once /\ d.op = "convert" /\ d.user = "")
               => d.status = 401 /\ UNCHANGED <<drafts, resumes>>

\* C19: a draft is converted at most once: a successful convert creates one
\* resume owned by the authenticated user and deletes the draft, after which
\* retrieve, partial_update and convert for that guest_id find no draft;
\* convert on a draft that has an owner is rejected with 400, creates no
\* resume and leaves the draft unchanged; convert without authentication is
\* rejected with 401 and changes nothing.
C19_ConvertedAtMostOnce == []DraftsConsistent /\ [][DraftsAnsweredRight]_vars

\* the draft of a guest was converted and a later convert for the guest_id
\* found no draft
C19_Witness ==
    /\ DraftAnswered("convert")
    /\ calls["w1"].status = 404
    /\ \E r \in DOMAIN resumes :
           /\ resumes[r].state = "converted"
           /\ drafts[resumes[r].draft].guest_id = calls["w1"].guest_id

\* a convert was answered 500 after its resume record had been created
ConvertFailedAfterCreate ==
    /\ DraftAnswered("convert")
    /\ calls["w1"].status = 500
    /\ calls["w1"].resume_id # 0

\* the state a failed convert is to leave: the draft there without owner, the
\* resume of the attempt gone
RolledBack ==
    LET c == calls["w1"]
    IN  /\ drafts[c.pk].exists
        /\ drafts[c.pk].owner = ""
        /\ resumes[c.resume_id].state = "deleted"

\* the step in which a convert fails leaves the data of its draft as it was
FailureKeepsData ==
    (~ConvertFailedAfterCreate /\ ConvertFailedAfterCreate')
        => drafts'[calls["w1"].pk].data = drafts[calls["w1"].pk].data

\* C26: a convert that fails after its resume record was created ends rolled
\* back: the draft exists with no owner and its data unchanged, so that a
\* later convert passes the owner test, and the resume the failed attempt
\* created exists no more.
C26_FailedConvertRolledBack ==
    [](ConvertFailedAfterCreate => RolledBack) /\ [][FailureKeepsData]_vars

\* the errors whose message mentions winerror 10035, socket or connection
MentionsRetryCause ==
    {"[WinError 10035] would block", "Socket closed", "Connection reset",
     "connection refused"}

\* what holds of a call of execute_with_retry at every moment
RetryBounded ==
    LET c == calls["w1"]
        n == Len(c.log)
        Retried(e) == e \in MentionsRetryCause
    IN  /\ n <= c.max_retries
        /\ c.pc = "loop" => n < c.max_retries
        /\ \A k \in 1..(n - 1) : c.log[k] # QueryOk /\ Retried(c.log[k])
        /\ (c.pc = "done" /\ c.outcome = "returned") => c.log[n] = QueryOk
        /\ (c.pc = "done" /\ c.outcome = "raised") =>
               /\ c.log[n] # QueryOk
               /\ c.value = c.log[n]
               /\ Retried(c.log[n]) => n = c.max_retries
        /\ (c.pc = "loop" /\ n > 0) => Retried(c.log[n])

\* C27: execute_with_retry ends after at most max_retries invocations of
\* query.execute: it returns at the first success, goes on only after an
\* error that mentions winerror 10035, socket or connection, raises any
\* other error when it first occurs, and raises the last error after
\* max_retries errors of the first kind.
C27_RetryEndsWithinMaxRetries ==
    []RetryBounded /\ ((calls["w1"].pc = "loop") ~> (calls["w1"].pc = "done"))

\* three invocations failed with errors to retry after, not all the same, and
\* the last of them was raised
C27_Witness ==
    LET c == calls["w1"]
    IN  /\ c.pc = "done"
        /\ c.outcome = "raised"
        /\ c.max_retries = DefaultMaxRetries
        /\ Len(c.log) = DefaultMaxRetries
        /\ c.log[1] # c.log[3]
        /\ c.value = c.log[3]
        /\ c.slept = 3

\* the resume text match works on
MatchResumeText ==
    IF request.resume_text = ""
    THEN utils_extract_text_from_resume_data(request.resume_data)
    ELSE request.resume_text

\* the job keywords that occur as a word in the resume text
JobKeywordsInResume ==
    Range(extract_keywords_from_text(LowerStr(request.job_desc)))
        \cap Range(FindAllAlpha(LowerStr(MatchResumeText), 1))

\* C28: match compares all keywords of both texts: a job keyword that occurs
\* as a word in the resume text is not in missing_keywords and is counted in
\* keyword_overlap, however many distinct words the texts hold.
C28_ResumeWordNeverMissing ==
    MatchReturned =>
        /\ \A k \in JobKeywordsInResume :
               Title(k) \notin Range(response.body.missing_keywords)
        /\ response.body.keyword_overlap = Cardinality(JobKeywordsInResume)

\* C29: whenever the ATS score is below 60 the suggestions hold the general
\* suggestion of high priority about low ATS compatibility: the cut to five
\* suggestions never removes it.
C29_LowScoreGetsGeneral ==
    (DirectReturned /\ analysis.result.ats_score < 60) =>
        GeneralSuggestion \in Range(analysis.result.suggestions)

\* the resumes that successful conversions of the draft left
ConvertedResumes(pk) ==
    {r \in DOMAIN resumes : resumes[r].draft = pk /\ resumes[r].state = "converted"}

\* C30: of two convert requests for the same draft that run at the same
\* time, by the same user or by two, at most one creates the resume and
\* reports success, under every interleaving; the other is answered 400
\* (already converted) or 404 (not found).
C30_OneConvertWins ==
    /\ \A pk \in DOMAIN drafts : Cardinality(ConvertedResumes(pk)) <= 1
    /\ ~(\A w \in TwoWorkers :
            calls[w].pc = "done" /\ calls[w].op = "convert" /\ calls[w].status = 200)

\* a reorder request has been answered
ReorderReturned == pc = "returned" /\ request.op = "reorder"

\* the request is well-formed and comes from the owner of the resume
WellFormedReorder ==
    /\ request.user = ReorderOwner
    /\ request.resume_id = ReorderResume
    /\ DOMAIN request.data = {"items"}

\* C20: a reorder request that returns 200 leaves every item named in the
\* request with its order equal to its position in the request's list, and
\* a well-formed reorder request from the resume's owner does return 200.
C20_ReorderTakesEffect ==
    ReorderReturned =>
        /\ response.status = 200 =>
               \A k \in DOMAIN request.data["items"] :
                   items[request.section][request.data["items"][k]] = k - 1
        /\ WellFormedReorder => response.status = 200

====
